---- MODULE Spec2Model ----
(***************************************************************************)
(* A model of dsoprea/go-exfat: the cluster walker and the file extractor  *)
(* (structures.go), the directory-entry enumerator (navigator.go,          *)
(* navigator_entry_types.go) and the lazy directory tree (tree.go).        *)
(*                                                                         *)
(* 32-bit unsigned words of the program (cluster numbers, FAT entries,     *)
(* byte offsets) are modelled by WordBits-bit words: TLC's integers are    *)
(* 32-bit signed, so the markers 0xFFFFFFF7 and 0xFFFFFFFF are kept as     *)
(* WordMod - 9 and WordMod - 1, and uint32 arithmetic wraps at WordMod.    *)
(***************************************************************************)
EXTENDS Integers, Sequences, FiniteSets, TLC

VARIABLES
    bsh,            \* er.bootRegion.bsh: the active boot sector header
    activeFat,      \* er.activeFat: the FAT entries kept by parseFat
    image,          \* the byte source: image[s + 1] is the content of sector s
    op,             \* the call in progress and its arguments
    pc,             \* position inside the call
    current,        \* EnumerateClusters: currentClusterNumber
    sectorIdx,      \* EnumerateSectors: i
    cbClusters,     \* cluster numbers the cluster callback was invoked with
    cbSectors,      \* sectors the sector callback was invoked with
    reads,          \* sector reads issued to the byte source (sector index or -1)
    fatLookups,     \* clusters whose active-FAT entry was consulted
    cbCont,         \* doContinue returned by the last cluster callback
    err,            \* the error the call returned ("none" for nil)
    written,        \* WriteFromClusterChain: written
    sectorCount,    \* WriteFromClusterChain: sectorCount
    doContinue,     \* WriteFromClusterChain: doContinue
    sink,           \* the bytes handed to w.Write, one record per Write call
    en,             \* EnumerateDirectoryEntries: its locals and its deliveries
    nodes,          \* the TreeNodes of the Tree, by path from the root node
    result,         \* what the last call on the Tree or the reader returned
    cursor          \* the offset of the byte source (er.rs) Parse reads at

walkVars == <<op, pc, current, sectorIdx, cbClusters, cbSectors, reads,
              fatLookups, cbCont, err>>
writeVars == <<written, sectorCount, doContinue, sink>>
volVars == <<bsh, activeFat, image, cursor>>
dirVars == <<en>>
treeVars == <<nodes, result>>

vars == <<bsh, activeFat, image, op, pc, current, sectorIdx, cbClusters,
          cbSectors, reads, fatLookups, cbCont, err, written, sectorCount,
          doContinue, sink, en, nodes, result, cursor>>

---------------------------------------------------------------------------
(* Bounds *)

WordBits == 16
MaxVisits == 4
MaxDataSize == 7

---------------------------------------------------------------------------
(* Words and markers *)

WordMod == 2 ^ WordBits

\* uint32 arithmetic
U32(x) == x % WordMod

BadCluster == WordMod - 9

LastCluster == WordMod - 1

IsBad(mc) == mc = BadCluster

IsLast(mc) == mc = LastCluster

NoError == "none"

---------------------------------------------------------------------------
(* Geometry of the parsed volume *)

SectorSize == 2 ^ bsh.BytesPerSectorShift

SectorsPerCluster == 2 ^ bsh.SectorsPerClusterShift

ImageBytes == Len(image) * SectorSize

\* newExfatCluster: the byte offset of a cluster, in uint32 arithmetic.
ClusterOffset(clusterNumber) ==
    U32(U32(bsh.ClusterHeapOffset * SectorSize)
          + U32(SectorsPerCluster * SectorSize) * (clusterNumber - 2))

\* GetSectorByIndex: the byte offset the sector read seeks to.
SectorOffset(clusterNumber, sectorIndex) ==
    U32(ClusterOffset(clusterNumber) + SectorSize * sectorIndex)

\* GetSectorByIndex with io.Read in the place of io.ReadFull: the bytes
\* that are there are returned without an error.
GetSectorByIndex_Read(length, clusterNumber, sectorIndex) ==
    IF sectorIndex >= SectorsPerCluster
    THEN [err |-> "sector-index exceeds the number of sectors per cluster",
          data |-> 0, offset |-> -1]
    ELSE IF SectorOffset(clusterNumber, sectorIndex) >= length
    THEN [err |-> "EOF", data |-> 0,
          offset |-> SectorOffset(clusterNumber, sectorIndex)]
    ELSE IF SectorOffset(clusterNumber, sectorIndex) + SectorSize > length
    THEN [err |-> NoError,
          data |-> length - SectorOffset(clusterNumber, sectorIndex),
          offset |-> SectorOffset(clusterNumber, sectorIndex)]
    ELSE [err |-> NoError, data |-> SectorSize,
          offset |-> SectorOffset(clusterNumber, sectorIndex)]

\* GetSectorByIndex on a byte source of length bytes: the error it returns
\* the length of the buffer it returns (0 for nil) and the offset it seeks
\* to (-1 for none). io.ReadFull delivers sectorSize bytes or fails.
GetSectorByIndex(length, clusterNumber, sectorIndex) ==
    IF sectorIndex >= SectorsPerCluster
    THEN [err |-> "sector-index exceeds the number of sectors per cluster",
          data |-> 0, offset |-> -1]
    ELSE IF SectorOffset(clusterNumber, sectorIndex) >= length
    THEN [err |-> "EOF", data |-> 0,
          offset |-> SectorOffset(clusterNumber, sectorIndex)]
    ELSE IF SectorOffset(clusterNumber, sectorIndex) + SectorSize > length
    THEN [err |-> "unexpected EOF", data |-> 0,
          offset |-> SectorOffset(clusterNumber, sectorIndex)]
    ELSE [err |-> NoError, data |-> SectorSize,
          offset |-> SectorOffset(clusterNumber, sectorIndex)]

\* GetSectorByIndex on the image returns a sector.
ReadOk(clusterNumber, sectorIndex) ==
    GetSectorByIndex(ImageBytes, clusterNumber, sectorIndex).err = NoError

\* The sector of the image a successful GetSectorByIndex returns.
SectorAt(clusterNumber, sectorIndex) ==
    SectorOffset(clusterNumber, sectorIndex) \div SectorSize

\* EnumerateSectors: the sector number passed to the sector callback.
SectorNumber(clusterNumber, sectorIndex) ==
    U32(bsh.ClusterHeapOffset + clusterNumber + sectorIndex)

---------------------------------------------------------------------------
(* TreeNode: names, the sorted child lists and AddChild *)

\* Go compares strings byte by byte; names are sequences of code points.
RECURSIVE StringLess(_, _)
StringLess(a, b) ==
    IF a = <<>> THEN b # <<>>
    ELSE IF b = <<>> THEN FALSE
    ELSE IF a[1] < b[1] THEN TRUE
    ELSE IF a[1] > b[1] THEN FALSE
    ELSE StringLess(Tail(a), Tail(b))

\* sort.StringSlice.Search: the binary search of sort.Search for the
\* smallest index (from 0) in [i, j) whose element is >= name.
RECURSIVE SearchFrom(_, _, _, _)
SearchFrom(list, name, i, j) ==
    IF i < j
    THEN LET h == (i + j) \div 2
         IN  IF StringLess(list[h + 1], name)
             THEN SearchFrom(list, name, h + 1, j)
             ELSE SearchFrom(list, name, i, h)
    ELSE i

\* Search that gives up the ordering: every name goes to the end.
Search_AtEnd(list, name) == Len(list)

Search(list, name) == SearchFrom(list, name, 0, Len(list))

\* AddChild: the list with name inserted at the index Search returns.
InsertSorted(list, name) ==
    LET insertOrEqualAt == Search(list, name) IN
    IF insertOrEqualAt >= Len(list)
    THEN Append(list, name)
    ELSE IF list[insertOrEqualAt + 1] # name
    THEN SubSeq(list, 1, insertOrEqualAt) \o <<name>>
           \o SubSeq(list, insertOrEqualAt + 1, Len(list))
    ELSE list

\* sede == nil
NoCluster == -1

\* NewTreeNode that marks the new node as loaded already.
NewTreeNode_Loaded(name, isDirectory, firstCluster) ==
    [name |-> name, isDirectory |-> isDirectory, loaded |-> TRUE,
     childrenFolders |-> <<>>, childrenFiles |-> <<>>,
     childrenMap |-> {}, firstCluster |-> firstCluster]

\* NewTreeNode. firstCluster stands for sede.FirstCluster.
NewTreeNode(name, isDirectory, firstCluster) ==
    [name |-> name, isDirectory |-> isDirectory, loaded |-> FALSE,
     childrenFolders |-> <<>>, childrenFiles |-> <<>>,
     childrenMap |-> {}, firstCluster |-> firstCluster]

IsPrefix(p, q) == Len(p) <= Len(q) /\ SubSeq(q, 1, Len(p)) = p

\* tn.AddChild(name, isDirectory, fde, sede, ide) on the node at path: the
\* name enters one of the sorted lists and childrenMap[name] becomes a new
\* node (a node it replaces is dropped with everything below it).
AddChild(ns, path, name, isDirectory, firstCluster) ==
    LET tn == ns[path]
        childPath == Append(path, name)
        updated ==
            [tn EXCEPT
               !.childrenFolders =
                   IF isDirectory THEN InsertSorted(@, name) ELSE @,
               !.childrenFiles =
                   IF isDirectory THEN @ ELSE InsertSorted(@, name),
               !.childrenMap = @ \cup {name}]
        kept == {q \in DOMAIN ns : ~IsPrefix(childPath, q)}
    IN  [q \in kept \cup {childPath} |->
            IF q = childPath
            THEN NewTreeNode(name, isDirectory, firstCluster)
            ELSE IF q = path THEN updated ELSE ns[q]]

NoResult == [call |-> "none"]

---------------------------------------------------------------------------
(* Initial states: a parsed volume and no call in progress *)

ClusterCountOfModel == 4

HeapOffsetOfModel == 1

\* The values a FAT entry of the image may hold: cluster numbers inside and
\* outside [2, ClusterCount + 2), numbers below 2, and the two markers.
FatValues == {0, 3, 4, 5, ClusterCountOfModel + 2, BadCluster, LastCluster}

\* Sectors of a volume whose cluster heap lies wholly inside the image.
ImageSectors(h) ==
    h.ClusterHeapOffset + h.ClusterCount * (2 ^ h.SectorsPerClusterShift)

Headers(bpsShifts, spcShifts) ==
    [BytesPerSectorShift : bpsShifts,
     SectorsPerClusterShift : spcShifts,
     ClusterCount : {ClusterCountOfModel},
     ClusterHeapOffset : {HeapOffsetOfModel},
     FirstClusterOfRootDirectory : {2}]

NoOp == [kind |-> "none", start |-> 0, useFat |-> FALSE, dataSize |-> 0,
         failAt |-> 0]

\* A nil DirectoryEntry.
NilEntry == [typeName |-> "nil"]

\* EnumerateDirectoryEntries at its entry: no primary, no secondaries.
\* delivered and parsed record the callback invocations and the slots
\* handed to parseDirectoryEntry.
InitEn ==
    [primaryEntry |-> NilEntry, secondaryEntries |-> <<>>, isDone |-> FALSE,
     entryNumber |-> 0, delivered |-> <<>>, parsed |-> <<>>]

InitIdleAt(offset) ==
    /\ op = NoOp
    /\ pc = "idle"
    /\ current = 0
    /\ sectorIdx = 0
    /\ cbClusters = <<>>
    /\ cbSectors = <<>>
    /\ reads = <<>>
    /\ fatLookups = <<>>
    /\ cbCont = TRUE
    /\ err = NoError
    /\ written = 0
    /\ sectorCount = 0
    /\ doContinue = TRUE
    /\ sink = <<>>
    /\ en = InitEn
    /\ nodes = (<<>> :> NewTreeNode(<<>>, TRUE, NoCluster))
    /\ result = NoResult
    /\ cursor = offset

\* No operation is under way and the byte source stands at its start.
InitIdle == InitIdleAt(0)

\* parseFat keeps ClusterCount - 1 entries (for clusters 2 .. ClusterCount).
InitWalk ==
    /\ bsh \in Headers({1}, {0, 1})
    /\ activeFat \in [1 .. (bsh.ClusterCount - 1) -> FatValues]
    /\ image = [s \in 1 .. ImageSectors(bsh) |-> <<>>]
    /\ InitIdle

---------------------------------------------------------------------------
(* Directory entries: the type byte and parseDirectoryEntry *)

directoryEntryBytesCount == 32

IsEndOfDirectory(et) == et = 0

IsUnusedEntryMarker(et) == et >= 1 /\ et <= 127

IsRegular(et) == et >= 129 /\ et <= 255

TypeCode(et) == et % 32

TypeImportance(et) == (et \div 32) % 2 = 1

IsCritical(et) == TypeImportance(et) = FALSE

TypeCategory(et) == (et \div 64) % 2 = 1

IsPrimary(et) == TypeCategory(et) = FALSE

IsInUse(et) == (et \div 128) % 2 = 1

\* directoryEntryParsers: <<typeCode, isCritical, isPrimary>> to the struct.
directoryEntryParsers ==
    (<<1, TRUE, TRUE>> :> "AllocationBitmap")
    @@ (<<2, TRUE, TRUE>> :> "UpcaseTable")
    @@ (<<3, TRUE, TRUE>> :> "VolumeLabel")
    @@ (<<5, TRUE, TRUE>> :> "File")
    @@ (<<0, FALSE, TRUE>> :> "VolumeGuid")
    @@ (<<1, FALSE, TRUE>> :> "TexFAT")
    @@ (<<0, TRUE, FALSE>> :> "StreamExtension")
    @@ (<<1, TRUE, FALSE>> :> "FileName")
    @@ (<<0, FALSE, FALSE>> :> "VendorExtension")
    @@ (<<1, FALSE, FALSE>> :> "VendorAllocation")

DirectoryEntryParserKey(et) == <<TypeCode(et), IsCritical(et), IsPrimary(et)>>

ParserFound(et) == DirectoryEntryParserKey(et) \in DOMAIN directoryEntryParsers

\* parseDirectoryEntry: the 32 bytes unpacked into the struct of the type
\* byte's key. pos names the slot the bytes came from.
parseDirectoryEntry(et, slot, pos) ==
    [typeName |-> directoryEntryParsers[DirectoryEntryParserKey(et)],
     entryType |-> et,
     pos |-> pos,
     secondaryCount |-> slot.secondaryCount,
     isDirectory |-> slot.isDirectory,
     firstCluster |-> slot.firstCluster,
     nameLength |-> slot.nameLength,
     fileName |-> slot.fileName]

\* The structs with a SecondaryCount method (PrimaryDirectoryEntry).
IsPrimaryDirectoryEntry(de) == de.typeName \in {"File", "VolumeGuid"}

---------------------------------------------------------------------------
(* EnumerateDirectoryEntries: the sector callback *)

\* DeliversSet with the count compared by <= : sets are handed over before
\* they are complete.
DeliversSet_UpTo(primary, secondaries, et) ==
    IF IsPrimaryDirectoryEntry(primary)
    THEN Len(secondaries) <= primary.secondaryCount
    ELSE IsPrimary(et)

\* "If the primary entry did not have a secondary entry requirement, or it
\* did and we've met it, call the callback."
DeliversSet(primary, secondaries, et) ==
    IF IsPrimaryDirectoryEntry(primary)
    THEN Len(secondaries) = primary.secondaryCount
    ELSE IsPrimary(et)

\* DirClusterContinues without the isDone test: the cluster walk goes on
\* after the end marker.
DirClusterContinues_Always(e) == TRUE

\* The cluster callback of EnumerateDirectoryEntries: doContinue.
DirClusterContinues(e) == ~e.isDone

\* The body of the slot loop passing over a slot for whose type byte no
\* struct is recorded.
ProcessSlot_Skips(e, slot, pos, failAt) ==
    LET et == slot.type IN
    IF IsEndOfDirectory(et)
    THEN [en |-> [e EXCEPT !.isDone = TRUE], stop |-> TRUE, err |-> NoError]
    ELSE IF ~ParserFound(et)
    THEN [en |-> [e EXCEPT !.parsed = Append(@, pos),
                           !.entryNumber = @ + 1],
          stop |-> FALSE, err |-> NoError]
    ELSE
      LET de == parseDirectoryEntry(et, slot, pos)
          primary == IF IsPrimary(et) THEN de ELSE e.primaryEntry
          secondaries == IF IsPrimary(et) THEN <<>>
                         ELSE Append(e.secondaryEntries, de)
          calls == DeliversSet(primary, secondaries, et)
          fails == calls /\ Len(e.delivered) + 1 = failAt
          e1 == [e EXCEPT !.parsed = Append(@, pos),
                          !.primaryEntry = primary,
                          !.secondaryEntries = secondaries,
                          !.delivered =
                              IF calls
                              THEN Append(@, [primary |-> primary,
                                              secondaries |-> secondaries])
                              ELSE @]
      IN  IF fails
          THEN [en |-> e1, stop |-> TRUE, err |-> "callback error"]
          ELSE [en |-> [e1 EXCEPT !.entryNumber = @ + 1], stop |-> FALSE,
                err |-> NoError]

\* The body of the slot loop for one slot. Returns the new locals, whether
\* the loop goes on (stop is "return false, nil"), and the error raised.
ProcessSlot(e, slot, pos, failAt) ==
    LET et == slot.type IN
    IF IsEndOfDirectory(et)
    THEN [en |-> [e EXCEPT !.isDone = TRUE], stop |-> TRUE, err |-> NoError]
    ELSE IF ~ParserFound(et)
    THEN [en |-> [e EXCEPT !.parsed = Append(@, pos)], stop |-> TRUE,
          err |-> "no struct-type recorded for entry-type"]
    ELSE
      LET de == parseDirectoryEntry(et, slot, pos)
          primary == IF IsPrimary(et) THEN de ELSE e.primaryEntry
          secondaries == IF IsPrimary(et) THEN <<>>
                         ELSE Append(e.secondaryEntries, de)
          calls == DeliversSet(primary, secondaries, et)
          fails == calls /\ Len(e.delivered) + 1 = failAt
          e1 == [e EXCEPT !.parsed = Append(@, pos),
                          !.primaryEntry = primary,
                          !.secondaryEntries = secondaries,
                          !.delivered =
                              IF calls
                              THEN Append(@, [primary |-> primary,
                                              secondaries |-> secondaries])
                              ELSE @]
      IN  IF fails
          THEN [en |-> e1, stop |-> TRUE, err |-> "callback error"]
          ELSE [en |-> [e1 EXCEPT !.entryNumber = @ + 1], stop |-> FALSE,
                err |-> NoError]

\* The slot loop over one sector: it ends after the slot at which
\* (i + 1) * 32 reaches the sector size.
RECURSIVE SlotLoop(_, _, _, _, _)
SlotLoop(e, data, sector, i, failAt) ==
    LET r == ProcessSlot(e, data[i + 1],
                         sector * (SectorSize \div directoryEntryBytesCount) + i,
                         failAt)
    IN  IF r.stop
        THEN [en |-> r.en, cont |-> FALSE, err |-> r.err]
        ELSE IF (i + 1) * directoryEntryBytesCount >= SectorSize
        THEN [en |-> r.en, cont |-> TRUE, err |-> NoError]
        ELSE SlotLoop(r.en, data, sector, i + 1, failAt)

ProcessSector(e, data, sector, failAt) == SlotLoop(e, data, sector, 0, failAt)

---------------------------------------------------------------------------
(* File names and the index of a directory *)

\* utf16.Decode of one unit: a lone surrogate decodes to U+FFFD.
Utf16Decode(unit) == IF unit >= 55296 /\ unit <= 57343 THEN 65533 ELSE unit

\* UnicodeFromAscii(raw, unicodeCharCount): the units raw[2i+1]<<8 | raw[2i]
\* for i from 0, decoded, with the NULs skipped.
RECURSIVE UnicodeFrom(_, _, _)
UnicodeFrom(raw, i, unicodeCharCount) ==
    IF i >= unicodeCharCount THEN <<>>
    ELSE LET rune == Utf16Decode(raw[i * 2 + 2] * 256 + raw[i * 2 + 1])
         IN  (IF rune = 0 THEN <<>> ELSE <<rune>>)
               \o UnicodeFrom(raw, i + 1, unicodeCharCount)

UnicodeFromAscii(raw, unicodeCharCount) == UnicodeFrom(raw, 0, unicodeCharCount)

\* MultipartFilename.Filename: the parts of the FileName entries, joined.
RECURSIVE Filename(_)
Filename(mf) ==
    IF mf = <<>> THEN <<>>
    ELSE (IF Head(mf).typeName = "FileName"
          THEN UnicodeFromAscii(Head(mf).fileName, 15)
          ELSE <<>>) \o Filename(Tail(mf))

RECURSIVE WalkDirectory(_, _, _)

\* The cluster walk after the sector callback has returned r for sector i of
\* cluster c: the error, the next sector, the next cluster, or the end.
WalkOn(c, i, r) ==
    IF r.err # NoError THEN [en |-> r.en, err |-> r.err]
    ELSE IF r.cont /\ i + 1 < SectorsPerCluster
    THEN WalkDirectory(c, i + 1, r.en)
    ELSE IF DirClusterContinues(r.en)
    THEN WalkDirectory(U32(c + 1), 0, r.en)
    ELSE [en |-> r.en, err |-> NoError]

\* EnumerateDirectoryEntries run to its return: the contiguous cluster walk
\* with the sector callback of the enumerator, from sector i of cluster c.
WalkDirectory(c, i, e) ==
    IF c < 2 THEN [en |-> e, err |-> "cluster-number too low"]
    ELSE IF ~ReadOk(c, i) THEN [en |-> e, err |-> "read error"]
    ELSE WalkOn(c, i, ProcessSector(e, image[SectorAt(c, i) + 1],
                                    SectorAt(c, i), 0))

\* The IndexedDirectoryEntry the callback of IndexDirectoryEntries makes of
\* a delivered set; Extra["complete_filename"] is set when the primary is a
\* File entry.
IndexedEntry(d) ==
    IF d.primary.typeName = "File"
    THEN [PrimaryEntry |-> d.primary, SecondaryEntries |-> d.secondaries,
          complete_filename |-> Filename(d.secondaries)]
    ELSE [PrimaryEntry |-> d.primary, SecondaryEntries |-> d.secondaries]

\* The callback with the new entry put in front of the list of its kind.
Binned_InFront(index, d) ==
    IF d.primary.typeName \in DOMAIN index
    THEN [index EXCEPT ![d.primary.typeName] = <<IndexedEntry(d)>> \o @]
    ELSE index @@ (d.primary.typeName :> <<IndexedEntry(d)>>)

\* The callback of IndexDirectoryEntries: the entry is appended to the list
\* index[typeName], which is made when the kind is new.
Binned(index, d) ==
    IF d.primary.typeName \in DOMAIN index
    THEN [index EXCEPT ![d.primary.typeName] = Append(@, IndexedEntry(d))]
    ELSE index @@ (d.primary.typeName :> <<IndexedEntry(d)>>)

\* The index after the callback was called with each delivered set.
RECURSIVE IndexBins(_, _)
IndexBins(delivered, index) ==
    IF delivered = <<>> THEN index
    ELSE IndexBins(Tail(delivered), Binned(index, Head(delivered)))

\* index := make(DirectoryEntryIndex)
EmptyIndex == [typeName \in {} |-> <<>>]

\* The index with its list index["File"] (empty when there is none) and the
\* error of the enumeration.
IndexWith(bins, e) ==
    [File |-> IF "File" \in DOMAIN bins THEN bins["File"] ELSE <<>>,
     bins |-> bins, err |-> e]

\* The index built from an enumeration that has returned.
IndexOf(r) == IndexWith(IndexBins(r.en.delivered, EmptyIndex), r.err)

\* EnumerateDirectoryEntries of the navigator at clusterNumber, with the
\* callback of IndexDirectoryEntries.
IndexedWalk(clusterNumber) ==
    IF clusterNumber < 2
    THEN [en |-> InitEn, err |-> "cluster can not be less than (2)"]
    ELSE WalkDirectory(clusterNumber, 0, InitEn)

\* IndexDirectoryEntries of the navigator at clusterNumber.
IndexDirectoryEntries(clusterNumber) == IndexOf(IndexedWalk(clusterNumber))

\* DirectoryEntryIndex.Filenames: name to isDirectory; a later entry of the
\* same name overwrites an earlier one.
Filenames(index) ==
    [n \in {index.File[k].complete_filename : k \in 1 .. Len(index.File)} |->
        LET last == CHOOSE k \in 1 .. Len(index.File) :
                      /\ index.File[k].complete_filename = n
                      /\ \A j \in (k + 1) .. Len(index.File) :
                            index.File[j].complete_filename # n
        IN  index.File[last].PrimaryEntry.isDirectory]

\* DirectoryEntryIndex.FileCount
FileCount(index) == Len(index.File)

\* DirectoryEntryIndex.GetFile(i): the name and the File entry at i.
GetFile(index, i) ==
    [filename |-> index.File[i + 1].complete_filename,
     fdf |-> index.File[i + 1].PrimaryEntry]

\* DirectoryEntryIndex.FindIndexedFile, found: some entry has that name.
FoundIndexedFile(index, filename) ==
    \E k \in 1 .. Len(index.File) :
        index.File[k].complete_filename = filename

\* FindIndexedFile returning the last entry of that name.
FindIndexedFile_Last(index, filename) ==
    LET last == CHOOSE k \in 1 .. Len(index.File) :
                  /\ index.File[k].complete_filename = filename
                  /\ \A j \in (k + 1) .. Len(index.File) :
                        index.File[j].complete_filename # filename
    IN  index.File[last]

\* DirectoryEntryIndex.FindIndexedFile: the first entry of that name.
FindIndexedFile(index, filename) ==
    LET first == CHOOSE k \in 1 .. Len(index.File) :
                   /\ index.File[k].complete_filename = filename
                   /\ \A j \in 1 .. (k - 1) :
                         index.File[j].complete_filename # filename
    IN  index.File[first]

\* FindIndexedFileStreamExtensionDirectoryEntry: the first Stream Extension
\* among the secondaries, or nil.
FindIndexedFileStreamExtensionDirectoryEntry(index, filename) ==
    LET hits == SelectSeq(FindIndexedFile(index, filename).SecondaryEntries,
                          LAMBDA de : de.typeName = "StreamExtension")
    IN  IF hits = <<>> THEN NilEntry ELSE Head(hits)

\* FindIndexedFileDirectoryEntry(filename, entryTypeName, 0): the primary
\* entry when it is of that type, else the first secondary of that type,
\* or nil.
FindIndexedFileDirectoryEntry(index, filename, entryTypeName) ==
    IF ~FoundIndexedFile(index, filename) THEN NilEntry
    ELSE IF FindIndexedFile(index, filename).PrimaryEntry.typeName
              = entryTypeName
    THEN FindIndexedFile(index, filename).PrimaryEntry
    ELSE IF SelectSeq(FindIndexedFile(index, filename).SecondaryEntries,
                      LAMBDA de : de.typeName = entryTypeName) = <<>>
    THEN NilEntry
    ELSE Head(SelectSeq(FindIndexedFile(index, filename).SecondaryEntries,
                        LAMBDA de : de.typeName = entryTypeName))

\* FindIndexedFileFileDirectoryEntry(filename)
FindIndexedFileFileDirectoryEntry(index, filename) ==
    FindIndexedFileDirectoryEntry(index, filename, "File")

---------------------------------------------------------------------------
(* Tree: loadDirectory, Load and Lookup *)

\* sede.FirstCluster, or the mark of a nil sede.
FirstClusterOf(sede) ==
    IF sede = NilEntry THEN NoCluster ELSE sede.firstCluster

\* The AddChild calls of loadDirectory for the names in the given order.
RECURSIVE AddChildren(_, _, _, _)
AddChildren(ns, path, index, names) ==
    IF names = <<>> THEN ns
    ELSE AddChildren(
             AddChild(ns, path, Head(names), Filenames(index)[Head(names)],
                      FirstClusterOf(
                          FindIndexedFileStreamExtensionDirectoryEntry(
                              index, Head(names)))),
             path, index, Tail(names))

\* loadDirectory once the index is built. mapOrder is the order in which
\* the range over the filenames map yields its keys.
LoadIndexed(ns, path, index, mapOrder) ==
    IF index.err # NoError
    THEN [nodes |-> ns, err |-> index.err]
    ELSE [nodes |->
            [AddChildren(ns, path, index,
                         SelectSeq(mapOrder,
                                   LAMBDA n : n \in DOMAIN Filenames(index)))
               EXCEPT ![path].loaded = TRUE],
          err |-> NoError]

\* tree.loadDirectory(clusterNumber, node)
loadDirectory(ns, path, clusterNumber, mapOrder) ==
    LoadIndexed(ns, path, IndexDirectoryEntries(clusterNumber), mapOrder)

\* loadDirectory(node.sede.FirstCluster, node): sede is nil for the root.
LoadNode(ns, path, mapOrder) ==
    IF ns[path].firstCluster = NoCluster
    THEN [nodes |-> ns, err |-> "nil pointer dereference"]
    ELSE loadDirectory(ns, path, ns[path].firstCluster, mapOrder)

\* TreeNodeLookup that takes the child named by the first part for the node
\* asked for, whatever parts follow.
TreeNodeLookup_First(ns, path, pathParts) ==
    IF pathParts = <<>> THEN [lastNode |-> path, found |-> TRUE]
    ELSE IF Head(pathParts) \notin ns[path].childrenMap
    THEN [lastNode |-> path, found |-> FALSE]
    ELSE [lastNode |-> Append(path, Head(pathParts)), found |-> TRUE]

\* TreeNode.Lookup(pathParts) on the node at path: the last node reached and
\* whether the parts were exhausted.
RECURSIVE TreeNodeLookup(_, _, _)
TreeNodeLookup(ns, path, pathParts) ==
    IF pathParts = <<>> THEN [lastNode |-> path, found |-> TRUE]
    ELSE IF Head(pathParts) \notin ns[path].childrenMap
    THEN [lastNode |-> path, found |-> FALSE]
    ELSE TreeNodeLookup(ns, Append(path, Head(pathParts)), Tail(pathParts))

\* A nil *TreeNode. Nodes are named by their paths; no name holds a NUL, so
\* this is the path of no node.
NilNode == <<<<0>>>>

RECURSIVE TreeLookup(_, _, _, _)

\* Tree.Lookup after loadDirectory has returned ld: the error, or the next
\* round of the loop.
LookupLoaded(ld, pathParts, mapOrder, loads) ==
    IF ld.err # NoError
    THEN [nodes |-> ld.nodes, node |-> NilNode, err |-> ld.err,
          loads |-> loads]
    ELSE TreeLookup(ld.nodes, pathParts, mapOrder, loads)

\* Tree.Lookup, one round of the loop, r being what rootNode.Lookup returned.
LookupRound(ns, r, pathParts, mapOrder, loads) ==
    IF r.found
    THEN [nodes |-> ns, node |-> r.lastNode, err |-> NoError, loads |-> loads]
    ELSE IF ns[r.lastNode].loaded
    THEN [nodes |-> ns, node |-> NilNode, err |-> NoError, loads |-> loads]
    ELSE LookupLoaded(LoadNode(ns, r.lastNode, mapOrder), pathParts,
                      mapOrder, Append(loads, r.lastNode))

\* Tree.Lookup(pathParts): the loop that loads the last node reached until
\* the path is found or the last node was loaded already.
TreeLookup(ns, pathParts, mapOrder, loads) ==
    LookupRound(ns, TreeNodeLookup(ns, <<>>, pathParts), pathParts, mapOrder,
                loads)

---------------------------------------------------------------------------
(* The boot regions: readBootSectorHead and parseBootRegion *)

bootSectorHeaderSize == 512

oemParametersSize == 48 * 10

mainExtendedBootSectorCount == 8

requiredJumpBootSignature == <<235, 118, 144>>

\* "EXFAT   "
requiredFileSystemName == <<69, 88, 70, 65, 84, 32, 32, 32>>

\* uint16(0xaa55)
requiredBootSignature == 43605

\* uint32(0xaa550000), as its four bytes in the order of the byte source.
requiredExtendedBootSignature == <<0, 0, 85, 170>>

\* defaultEncoding on a uint16 field: the low-order byte comes first.
Uint16Of(raw) == raw[1] + 256 * raw[2]

\* VolumeFlags.UseFirstFat: vf & VolumeFlagActiveFat == 0
UseFirstFat(vf) == vf % 2 = 0

\* VolumeFlags.UseSecondFat: vf & VolumeFlagActiveFat > 0
UseSecondFat(vf) == vf % 2 > 0

\* BootSectorHeader.SectorSize of a header: 2 ^ BytesPerSectorShift.
SectorSizeOf(h) == U32(2 ^ h.BytesPerSectorShift)

\* The 512 bytes of a boot sector that hold only zeros, unpacked; also the
\* header of bootRegion{}.
ZeroHeader ==
    [JumpBoot |-> <<0, 0, 0>>,
     FileSystemName |-> <<0, 0, 0, 0, 0, 0, 0, 0>>,
     MustBeZero |-> [i \in 1 .. 53 |-> 0],
     FatOffset |-> 0, FatLength |-> 0, ClusterHeapOffset |-> 0,
     ClusterCount |-> 0, FirstClusterOfRootDirectory |-> 0,
     VolumeFlags |-> 0, FileSystemRevision |-> <<0, 0>>,
     BytesPerSectorShift |-> 0, SectorsPerClusterShift |-> 0,
     NumberOfFats |-> 0, BootSignature |-> <<0, 0>>]

\* The state of a run of Parse: the offset of the byte source and the error
\* that was raised (a panic ends every later step).
Failed(st) == st.err # NoError

Fail(st, e) == [st EXCEPT !.err = e]

\* io.ReadFull / binary.Read of n bytes: the offset moves over the bytes
\* that are there; fewer than n is an error.
ReadFull(st, n) ==
    IF Failed(st) THEN st
    ELSE IF st.cursor + n > image.length
    THEN [st EXCEPT !.cursor = IF @ > image.length THEN @ ELSE image.length,
                    !.err = "unexpected EOF"]
    ELSE [st EXCEPT !.cursor = @ + n]

\* rs.Seek(n, os.SEEK_CUR)
SeekCur(st, n) == IF Failed(st) THEN st ELSE [st EXCEPT !.cursor = @ + n]

\* The boot sector header the byte source holds at an offset: the main one
\* at sector 0, the backup one at sector 12, zeros elsewhere.
HeaderAt(offset) ==
    IF offset = 0 THEN image.main
    ELSE IF offset = 12 * SectorSizeOf(image.main) THEN image.backup
    ELSE ZeroHeader

\* readBootSectorHead without the loop over MustBeZero.
HeaderError_NoZeroLoop(h) ==
    IF h.JumpBoot # requiredJumpBootSignature
    THEN "jump-boot value not correct"
    ELSE IF h.FileSystemName # requiredFileSystemName
    THEN "filesystem name not correct"
    ELSE IF Uint16Of(h.BootSignature) # requiredBootSignature
    THEN "boot-signature not correct"
    ELSE NoError

\* readBootSectorHead: the checks on the unpacked header, in their order.
HeaderError(h) ==
    IF h.JumpBoot # requiredJumpBootSignature
    THEN "jump-boot value not correct"
    ELSE IF h.FileSystemName # requiredFileSystemName
    THEN "filesystem name not correct"
    ELSE IF Uint16Of(h.BootSignature) # requiredBootSignature
    THEN "boot-signature not correct"
    ELSE IF \E i \in DOMAIN h.MustBeZero : h.MustBeZero[i] # 0
    THEN "must-be-zero field not all zeros"
    ELSE NoError

\* readBootSectorHead after parseN: the checks, then the seek over the
\* bytes of the sector beyond the header.
CheckedHead(st, h) ==
    IF Failed(st) THEN st
    ELSE IF HeaderError(h) # NoError THEN Fail(st, HeaderError(h))
    ELSE IF U32(SectorSizeOf(h) - bootSectorHeaderSize) # 0
    THEN SeekCur([st EXCEPT !.bsh = h],
                 U32(SectorSizeOf(h) - bootSectorHeaderSize))
    ELSE [st EXCEPT !.bsh = h]

\* readBootSectorHead: st.bsh is the header it returns.
readBootSectorHead(st) ==
    CheckedHead(ReadFull(st, bootSectorHeaderSize), HeaderAt(st.cursor))

\* The four bytes the byte source holds at an offset where an extended
\* boot signature is read: the last four bytes of sectors 1..8 and 13..20
\* hold the signature, unless the image spoils it.
ExtendedBootSignatureAt(offset) ==
    IF \E k \in (1 .. 8) \cup (13 .. 20) :
          /\ offset = (k + 1) * SectorSizeOf(image.main) - 4
          /\ k \notin image.badExtendedBootSectors
    THEN requiredExtendedBootSignature
    ELSE <<0, 0, 0, 0>>

\* readExtendedBootSector, the check of the signature read at an offset.
CheckedExtendedBootSignature(st, offset) ==
    IF Failed(st) THEN st
    ELSE IF ExtendedBootSignatureAt(offset) # requiredExtendedBootSignature
    THEN Fail(st, "extended boot-signature not correct")
    ELSE st

\* Where the read of the extended boot code leaves the offset.
AfterExtendedBootCode(st, sectorSize) == ReadFull(st, U32(sectorSize - 4))

\* readExtendedBootSector(sectorSize)
readExtendedBootSector(st, sectorSize) ==
    CHOOSE r \in { CheckedExtendedBootSignature(ReadFull(code, 4),
                                                code.cursor) :
                      code \in {AfterExtendedBootCode(st, sectorSize)} } :
        TRUE

\* readExtendedBootSectors(sectorSize): i sectors are still to be read.
RECURSIVE readExtendedBootSectors(_, _, _)
readExtendedBootSectors(st, sectorSize, i) ==
    IF i = 0 THEN st
    ELSE CHOOSE r \in { readExtendedBootSectors(read, sectorSize, i - 1) :
                           read \in {readExtendedBootSector(st, sectorSize)} } :
             TRUE

\* readOemParameters(sectorSize)
readOemParameters(st, sectorSize) ==
    ReadFull(ReadFull(st, oemParametersSize), U32(sectorSize - 480))

\* readMainReserved(sectorSize)
readMainReserved(st, sectorSize) == ReadFull(st, sectorSize)

\* readMainBootChecksum(sectorSize): the checksum is read, not verified.
readMainBootChecksum(st, sectorSize) == ReadFull(st, sectorSize)

\* parseBootRegion after readBootSectorHead has returned st.bsh.
RestOfBootRegion(st, sectorSize) ==
    readMainBootChecksum(
        readMainReserved(
            readOemParameters(
                readExtendedBootSectors(st, sectorSize,
                                        mainExtendedBootSectorCount),
                sectorSize),
            sectorSize),
        sectorSize)

\* parseBootRegion: st.bsh is the header of the region it returns.
parseBootRegion(st) ==
    CHOOSE r \in { RestOfBootRegion(head, SectorSizeOf(head.bsh)) :
                      head \in {readBootSectorHead(st)} } : TRUE

---------------------------------------------------------------------------
(* The FATs: parseFat and parseFats *)

\* A FAT sector region that holds only zeros.
ZeroFat == [mediaType |-> 0, second |-> 0, entries |-> <<>>]

\* The FAT the byte source holds at an offset: the k-th FAT of the image
\* starts at sector FatOffset + k * FatLength.
FatAt(offset) ==
    IF \E k \in 1 .. Len(image.fats) :
          offset = (image.main.FatOffset + (k - 1) * image.main.FatLength)
                     * SectorSizeOf(image.main)
    THEN image.fats[1 + ((offset \div SectorSizeOf(image.main))
                           - image.main.FatOffset)
                          \div image.main.FatLength]
    ELSE ZeroFat

\* parseFat: the entries kept, ClusterCount - 1 of them.
EntryCount(h) == U32(h.ClusterCount - 1)

\* parseFat: excessSize = totalFatSize - actualFatSize.
ExcessSize(h) ==
    U32(U32(h.FatLength * SectorSizeOf(h)) - U32((h.ClusterCount + 1) * 4))

\* The entries of a FAT that parseFat keeps; a FAT region shorter than that
\* reads as zeros.
KeptEntries(fat, h) ==
    [i \in 1 .. EntryCount(h) |->
        IF i <= Len(fat.entries) THEN fat.entries[i] ELSE 0]

\* parseFat on the FAT found at the offset: the alignment assertion, the two
\* leading entries, the kept entries, the excess bytes.
parseFatOf(st, fat, h) ==
    IF Failed(st) THEN st
    ELSE IF st.cursor % SectorSizeOf(h) # 0
    THEN Fail(st, "not currently aligned to a sector")
    ELSE IF Failed(ReadFull(st, 4)) THEN ReadFull(st, 4)
    ELSE IF fat.mediaType # 248
    THEN Fail(ReadFull(st, 4), "media-type not correct")
    ELSE IF Failed(ReadFull(st, 8)) THEN ReadFull(st, 8)
    ELSE IF fat.second # LastCluster
    THEN Fail(ReadFull(st, 8), "second fat-entry has unexpected value")
    ELSE IF Failed(ReadFull(ReadFull(st, 8), EntryCount(h) * 4))
    THEN ReadFull(ReadFull(st, 8), EntryCount(h) * 4)
    ELSE [ReadFull(ReadFull(ReadFull(st, 8), EntryCount(h) * 4),
                   ExcessSize(h))
            EXCEPT !.fats = Append(@, KeptEntries(fat, h))]

\* parseFat
parseFat(st, h) == parseFatOf(st, FatAt(st.cursor), h)

\* parseFats, the loop: i FATs are still to be parsed.
RECURSIVE parseFatLoop(_, _, _)
parseFatLoop(st, h, i) ==
    IF i = 0 \/ Failed(st) THEN st
    ELSE parseFatLoop(parseFat(st, h), h, i - 1)

\* parseFats with the FAT alignment bytes read ahead of the test of the
\* boot region.
parseFats_ReadFirst(st, h) ==
    IF Failed(st) THEN st
    ELSE IF Failed(ReadFull(st, U32(U32(h.FatOffset - 24) * SectorSizeOf(h))))
    THEN ReadFull(st, U32(U32(h.FatOffset - 24) * SectorSizeOf(h)))
    ELSE IF h = ZeroHeader
    THEN Fail(ReadFull(st, U32(U32(h.FatOffset - 24) * SectorSizeOf(h))),
              "boot-sectors not loaded yet")
    ELSE parseFatLoop(
             ReadFull(st, U32(U32(h.FatOffset - 24) * SectorSizeOf(h))),
             h, h.NumberOfFats)

\* parseFats with er.bootRegion.bsh = h: the test of the boot region, the
\* FAT alignment bytes, then the FATs.
parseFats(st, h) ==
    IF Failed(st) THEN st
    ELSE IF h = ZeroHeader THEN Fail(st, "boot-sectors not loaded yet")
    ELSE parseFatLoop(
             ReadFull(st, U32(U32(h.FatOffset - 24) * SectorSizeOf(h))),
             h, h.NumberOfFats)

---------------------------------------------------------------------------
(* Parse *)

\* What a run of Parse leaves: the error returned, er.bootRegion.bsh,
\* er.activeFat and the offset of the byte source.
Outcome(st, h, fat) ==
    [err |-> st.err, bsh |-> h, activeFat |-> fat, cursor |-> st.cursor]

\* checkClusterHeapOffset: the alignment bytes are read, then the offset is
\* compared with ClusterHeapOffset.
checkClusterHeapOffsetAt(st, h) ==
    IF Failed(st) THEN st
    ELSE IF U32(st.cursor) \div SectorSizeOf(h) # h.ClusterHeapOffset
            \/ U32(st.cursor) % SectorSizeOf(h) # 0
    THEN Fail(st, "calculated cluster offset does not match expected cluster offset")
    ELSE st

checkClusterHeapOffset(st, h) ==
    checkClusterHeapOffsetAt(
        ReadFull(st,
                 U32(U32(h.ClusterHeapOffset
                           - U32(h.FatOffset
                                   + U32(h.FatLength * h.NumberOfFats)))
                       * SectorSizeOf(h))),
        h)

\* Parse after parseFats: the active FAT is selected, then the cluster heap
\* offset is checked. fats[i] of an i beyond the list is a run-time panic.
SelectActiveFat(st, h) ==
    IF Failed(st) THEN Outcome(st, h, activeFat)
    ELSE IF UseFirstFat(h.VolumeFlags)
    THEN IF Len(st.fats) < 1
         THEN Outcome(Fail(st, "index out of range"), h, activeFat)
         ELSE Outcome(checkClusterHeapOffset(st, h), h, st.fats[1])
    ELSE IF UseSecondFat(h.VolumeFlags)
    THEN IF Len(st.fats) = 1
         THEN Outcome(Fail(st, "boot-sector-header says to use the second FAT but only one FAT is available"),
                      h, activeFat)
         ELSE IF Len(st.fats) < 2
         THEN Outcome(Fail(st, "index out of range"), h, activeFat)
         ELSE Outcome(checkClusterHeapOffset(st, h), h, st.fats[2])
    ELSE Outcome(Fail(st, "no fat selected"), h, activeFat)

\* Parse after the main region (header main) and the backup region were
\* parsed: selectBootRegion elects the main region, then parseFats.
ParseFrom(main, st) ==
    IF Failed(st) THEN Outcome(st, bsh, activeFat)
    ELSE SelectActiveFat(parseFats(st, main), main)

\* Parse after the main boot region was parsed.
ParseBackup(st) == ParseFrom(st.bsh, parseBootRegion(st))

\* er.Parse(), run from the current offset of the byte source.
ParseRun ==
    ParseBackup(parseBootRegion([cursor |-> cursor, err |-> NoError,
                                 bsh |-> ZeroHeader, fats |-> <<>>]))

---------------------------------------------------------------------------
(* Parse over the images of small volumes *)

\* A well-formed header: 512-byte sectors, one sector per FAT, three
\* clusters of one sector.
HeaderOf(numberOfFats, volumeFlags, majorRevision, fatPadding, heapPadding) ==
    [JumpBoot |-> requiredJumpBootSignature,
     FileSystemName |-> requiredFileSystemName,
     MustBeZero |-> [i \in 1 .. 53 |-> 0],
     FatOffset |-> 24 + fatPadding, FatLength |-> 1,
     ClusterHeapOffset |-> 24 + fatPadding + numberOfFats + heapPadding,
     ClusterCount |-> 3, FirstClusterOfRootDirectory |-> 2,
     VolumeFlags |-> volumeFlags,
     FileSystemRevision |-> <<0, majorRevision>>,
     BytesPerSectorShift |-> 9, SectorsPerClusterShift |-> 0,
     NumberOfFats |-> numberOfFats, BootSignature |-> <<85, 170>>]

HeaderDefects == {"none", "jump-boot", "name", "first-zero", "last-zero",
                  "signature"}

\* A header with one of its checked fields spoiled.
Spoiled(h, defect) ==
    CASE defect = "none" -> h
      [] defect = "jump-boot" -> [h EXCEPT !.JumpBoot = <<235, 118, 0>>]
      [] defect = "name" ->
            [h EXCEPT !.FileSystemName = <<69, 88, 70, 65, 84, 32, 32, 0>>]
      [] defect = "first-zero" -> [h EXCEPT !.MustBeZero[1] = 1]
      [] defect = "last-zero" -> [h EXCEPT !.MustBeZero[53] = 128]
      [] defect = "signature" -> [h EXCEPT !.BootSignature = <<170, 85>>]

\* The k-th FAT of an image; the FATs differ in their first kept entry.
FatOfImage(k) ==
    [mediaType |-> 248, second |-> LastCluster,
     entries |-> <<k + 2, LastCluster>>]

\* The volume with header h in both boot regions, spoiled in at most one of
\* them, with the FATs the header counts, and with extraBytes bytes behind
\* the cluster heap.
VolumeOf(h, mainDefect, backupDefect, badSectors, extraBytes) ==
    [main |-> Spoiled(h, mainDefect),
     backup |-> Spoiled(h, backupDefect),
     badExtendedBootSectors |-> badSectors,
     fats |-> [k \in 1 .. h.NumberOfFats |-> FatOfImage(k)],
     length |-> (h.ClusterHeapOffset + h.ClusterCount) * SectorSizeOf(h)
                  + extraBytes]

InitParse ==
    /\ \E numberOfFats \in 0 .. 3, volumeFlags \in {0, 1, 3},
          majorRevision \in {1, 2}, fatPadding \in {0, 1},
          heapPadding \in {-1, 0, 1}, mainDefect \in HeaderDefects,
          backupDefect \in HeaderDefects, badSectors \in {{}, {15}},
          extraBytes \in {0, WordMod} :
          /\ mainDefect = "none" \/ backupDefect = "none"
          /\ image = VolumeOf(HeaderOf(numberOfFats, volumeFlags,
                                       majorRevision, fatPadding,
                                       heapPadding),
                              mainDefect, backupDefect, badSectors,
                              extraBytes)
    /\ bsh = ZeroHeader
    /\ activeFat = <<>>
    /\ InitIdle

\* er.Parse()
Parse ==
    \E r \in {ParseRun} :
        /\ bsh' = r.bsh
        /\ activeFat' = r.activeFat
        /\ cursor' = r.cursor
        /\ result' = [call |-> "Parse", err |-> r.err, from |-> cursor]
        /\ UNCHANGED <<image, nodes>>
        /\ UNCHANGED walkVars
        /\ UNCHANGED writeVars
        /\ UNCHANGED dirVars

NextParse == Parse

SpecParse == InitParse /\ [][NextParse]_vars

---------------------------------------------------------------------------
(* parseFats and parseFat on readers that stand behind the boot regions *)

\* A FAT region with n entries behind its two leading ones.
FatWith(mediaType, second, n) ==
    [mediaType |-> mediaType, second |-> second,
     entries |-> [i \in 1 .. n |-> IF i = n THEN LastCluster ELSE i + 2]]

\* A header whose FATs have fatLength sectors of 2^shift bytes and follow
\* fatPadding sectors behind the boot regions.
FatHeader(clusterCount, fatLength, shift, numberOfFats, fatPadding) ==
    [HeaderOf(numberOfFats, 0, 1, fatPadding, 0)
        EXCEPT !.ClusterCount = clusterCount,
               !.FatLength = fatLength,
               !.BytesPerSectorShift = shift,
               !.ClusterHeapOffset = 24 + fatPadding + numberOfFats * fatLength]

\* The volume of a header with the same region in each of its FATs; cut
\* bytes of its end are missing from the byte source.
FatVolume(h, fat, cut) ==
    [VolumeOf(h, "none", "none", {}, 0)
        EXCEPT !.fats = [k \in 1 .. h.NumberOfFats |-> fat],
               !.length = (h.ClusterHeapOffset + h.ClusterCount)
                             * SectorSizeOf(h) - cut]

\* The bytes of the volume from the tenth byte of its first FAT on.
FromFirstFat(h) ==
    (h.ClusterHeapOffset + h.ClusterCount - h.FatOffset) * SectorSizeOf(h)
        - 10

\* Readers behind the backup boot region of a volume, with the boot region
\* loaded or not. The sectors have 16 or 32 bytes; a FAT has one or two
\* sectors, or one sector more than the bytes a word can count.
InitFat ==
    /\ \E clusterCount \in 1 .. 4, shift \in {4, 5},
          numberOfFats \in {1, 2}, fatPadding \in {0, 1},
          mediaType \in {248, 240}, second \in {LastCluster, 0},
          long \in BOOLEAN, whole \in BOOLEAN, loaded \in BOOLEAN :
          \E fatLength \in {1, 2} \cup {WordMod \div (2 ^ shift) + 1 : x \in {y \in {0} : long}} :
          \E h \in {FatHeader(clusterCount, fatLength, shift, numberOfFats,
                              fatPadding)} :
              /\ image = FatVolume(h, FatWith(mediaType, second,
                                              clusterCount - 1),
                                   IF whole THEN 0 ELSE FromFirstFat(h))
              /\ bsh = IF loaded THEN h ELSE ZeroHeader
              /\ InitIdleAt(24 * SectorSizeOf(h))
    /\ activeFat = <<>>

\* What a call on the reader leaves: the error returned, the FATs returned
\* and the offset of the byte source at the call.
FatResult(call, r) ==
    [call |-> call, err |-> r.err, fats |-> r.fats, from |-> cursor]

\* A reader whose last call returned an error is not used again.
ReaderInUse == IF result = NoResult THEN TRUE ELSE result.err = NoError

\* er.parseFats()
parseFatsCall ==
    /\ ReaderInUse
    /\ \E r \in {parseFats([cursor |-> cursor, err |-> NoError, bsh |-> bsh,
                             fats |-> <<>>], bsh)} :
           /\ cursor' = r.cursor
           /\ result' = FatResult("parseFats", r)
           /\ UNCHANGED <<bsh, activeFat, image, nodes>>
           /\ UNCHANGED walkVars
           /\ UNCHANGED writeVars
           /\ UNCHANGED dirVars

\* er.parseFat()
parseFatCall ==
    /\ ReaderInUse
    /\ \E r \in {parseFat([cursor |-> cursor, err |-> NoError, bsh |-> bsh,
                            fats |-> <<>>], bsh)} :
           /\ cursor' = r.cursor
           /\ result' = FatResult("parseFat", r)
           /\ UNCHANGED <<bsh, activeFat, image, nodes>>
           /\ UNCHANGED walkVars
           /\ UNCHANGED writeVars
           /\ UNCHANGED dirVars

NextFat == parseFatsCall \/ parseFatCall

SpecFat == InitFat /\ [][NextFat]_vars

---------------------------------------------------------------------------
(* EnumerateClusters and EnumerateSectors *)

CbResults == {"continue", "stop", "error"}

\* A walk whose deferred recover drops the error.
ReturnOf_Nil(e) == NoError

\* What the caller of EnumerateClusters returns once the walk has returned e.
\* WriteFromClusterChain checks the byte count after a walk without error.
ReturnOf(e) ==
    IF op.kind = "write" /\ e = NoError /\ written # op.dataSize
    THEN "written bytes do not equal data-size"
    ELSE e

Finish(e) ==
    /\ pc' = "done"
    /\ err' = ReturnOf(e)

\* EnumerateClusters: the guard on the bounds of the active FAT.
FatBoundsExceeded(clusterNumber) == clusterNumber >= Len(activeFat)

\* EnumerateClusters: the active-FAT entry consulted for a cluster.
NextMappedCluster(clusterNumber) == activeFat[(clusterNumber - 2) + 1]

\* EnumerateClusters, entry: the starting cluster is checked, then the loop
\* is entered.
CallEnumerateClusters(kind, start, useFat, dataSize, failAt) ==
    /\ pc = "idle"
    /\ op' = [kind |-> kind, start |-> start, useFat |-> useFat,
              dataSize |-> dataSize, failAt |-> failAt]
    /\ IF start < 2
       THEN /\ pc' = "done"
            /\ err' = "cluster can not be less than (2)"
            /\ UNCHANGED current
       ELSE /\ pc' = "ec_top"
            /\ current' = start
            /\ UNCHANGED err
    /\ UNCHANGED <<sectorIdx, cbClusters, cbSectors, reads, fatLookups,
                   cbCont>>
    /\ UNCHANGED writeVars
    /\ UNCHANGED dirVars
    /\ UNCHANGED volVars
    /\ UNCHANGED treeVars

\* A walk with a callback that only looks at the cluster handle.
EnumeratePlain ==
    \E start \in 1 .. (ClusterCountOfModel + 2), useFat \in BOOLEAN :
        CallEnumerateClusters("plain", start, useFat, 0, 0)

\* A walk whose callback enumerates the sectors of each cluster.
EnumerateWithSectors ==
    \E start \in 2 .. (ClusterCountOfModel + 1), useFat \in BOOLEAN :
        CallEnumerateClusters("sectors", start, useFat, 0, 0)

\* EnumerateClusters, loop head: the handle is built and the cluster callback
\* is invoked. A callback that reads sectors goes on in SectorStep.
ClusterVisit ==
    /\ pc = "ec_top"
    /\ Len(cbClusters) < MaxVisits
    /\ IF current < 2
       THEN /\ Finish("cluster-number too low")
            /\ UNCHANGED <<cbClusters, cbCont, sectorIdx>>
       ELSE /\ cbClusters' = Append(cbClusters, current)
            /\ IF op.kind = "plain"
               THEN /\ \E r \in CbResults :
                         IF r = "error"
                         THEN Finish("callback error") /\ UNCHANGED cbCont
                         ELSE /\ cbCont' = (r = "continue")
                              /\ pc' = "ec_after"
                              /\ UNCHANGED err
                    /\ UNCHANGED sectorIdx
               ELSE /\ sectorIdx' = 0
                    /\ pc' = "es_loop"
                    /\ UNCHANGED <<cbCont, err>>
    /\ UNCHANGED <<op, current, cbSectors, reads, fatLookups>>
    /\ UNCHANGED writeVars
    /\ UNCHANGED dirVars
    /\ UNCHANGED volVars
    /\ UNCHANGED treeVars

\* EnumerateClusters, after the callback: stop, or find the next cluster.
ClusterAdvance ==
    /\ pc = "ec_after"
    /\ IF cbCont = FALSE
       THEN Finish(NoError) /\ UNCHANGED <<current, fatLookups>>
       ELSE IF op.useFat
       THEN IF FatBoundsExceeded(current)
            THEN /\ Finish("cluster exceeds FAT bounds")
                 /\ UNCHANGED <<current, fatLookups>>
            ELSE /\ fatLookups' = Append(fatLookups, current)
                 /\ IF IsLast(NextMappedCluster(current))
                    THEN Finish(NoError) /\ UNCHANGED current
                    ELSE /\ current' = NextMappedCluster(current)
                         /\ pc' = "ec_top"
                         /\ UNCHANGED err
       ELSE /\ current' = U32(current + 1)
            /\ pc' = "ec_top"
            /\ UNCHANGED <<err, fatLookups>>
    /\ UNCHANGED <<op, sectorIdx, cbClusters, cbSectors, reads, cbCont>>
    /\ UNCHANGED writeVars
    /\ UNCHANGED dirVars
    /\ UNCHANGED volVars
    /\ UNCHANGED treeVars

\* WriteFromClusterChain, sector callback: "if we're in the last sector".
InLastSector(count, dataSize) == U32((count + 1) * SectorSize) > dataSize

\* WriteFromClusterChain: tailFragmentSize.
TailFragmentSize(dataSize) == dataSize % SectorSize

\* WriteFromClusterChain, sector callback: the length of the slice handed to
\* w.Write.
WriteLength(count, dataSize) ==
    IF InLastSector(count, dataSize) /\ TailFragmentSize(dataSize) > 0
    THEN TailFragmentSize(dataSize)
    ELSE SectorSize

\* EnumerateSectors: one invocation of the sector callback on the sector at
\* hand, with what the callback returned.
SectorCall(returned) ==
    [number |-> SectorNumber(current, sectorIdx),
     sector |-> SectorAt(current, sectorIdx),
     cluster |-> current, index |-> sectorIdx, returned |-> returned]

\* EnumerateSectors, one iteration: GetSectorByIndex, then the sector
\* callback; when the loop ends the cluster callback returns.
SectorStep ==
    /\ pc = "es_loop"
    /\ reads' = Append(reads, SectorOffset(current, sectorIdx))
    /\ IF ~ReadOk(current, sectorIdx)
       THEN /\ Finish("read error")
            /\ UNCHANGED <<cbSectors, sectorIdx, cbCont>>
            /\ UNCHANGED writeVars
            /\ UNCHANGED dirVars
       ELSE /\ CASE op.kind = "sectors" ->
                      /\ \E r \in CbResults :
                           /\ cbSectors' = Append(cbSectors, SectorCall(r))
                           /\ IF r = "error"
                              THEN /\ Finish("callback error")
                                   /\ UNCHANGED <<sectorIdx, cbCont>>
                              ELSE IF r = "continue"
                                      /\ sectorIdx + 1 < SectorsPerCluster
                              THEN /\ sectorIdx' = sectorIdx + 1
                                   /\ UNCHANGED <<pc, err, cbCont>>
                              ELSE /\ \E c \in BOOLEAN : cbCont' = c
                                   /\ pc' = "ec_after"
                                   /\ UNCHANGED <<sectorIdx, err>>
                      /\ UNCHANGED writeVars
                      /\ UNCHANGED dirVars
                 [] op.kind = "dir" ->
                      LET r == ProcessSector(en, image[SectorAt(current, sectorIdx) + 1],
                                             SectorAt(current, sectorIdx),
                                             op.failAt)
                      IN  /\ en' = r.en
                          /\ cbSectors' =
                                Append(cbSectors,
                                       SectorCall(IF r.err # NoError
                                                  THEN "error"
                                                  ELSE IF r.cont
                                                  THEN "continue"
                                                  ELSE "stop"))
                          /\ IF r.err # NoError
                             THEN /\ Finish(r.err)
                                  /\ UNCHANGED <<sectorIdx, cbCont>>
                             ELSE IF r.cont /\ sectorIdx + 1 < SectorsPerCluster
                             THEN /\ sectorIdx' = sectorIdx + 1
                                  /\ UNCHANGED <<pc, err, cbCont>>
                             ELSE /\ cbCont' = DirClusterContinues(r.en)
                                  /\ pc' = "ec_after"
                                  /\ UNCHANGED <<sectorIdx, err>>
                          /\ UNCHANGED writeVars
                 [] op.kind = "write" ->
                      LET n == WriteLength(sectorCount, op.dataSize)
                          dc == IF InLastSector(sectorCount, op.dataSize)
                                THEN FALSE ELSE doContinue
                      IN  /\ sink' = Append(sink,
                                [sector |-> SectorAt(current, sectorIdx),
                                 len |-> n])
                          /\ cbSectors' =
                                Append(cbSectors,
                                       SectorCall(IF dc THEN "continue"
                                                  ELSE "stop"))
                          /\ written' = written + n
                          /\ sectorCount' = U32(sectorCount + 1)
                          /\ doContinue' = dc
                          /\ UNCHANGED dirVars
                          /\ IF dc /\ sectorIdx + 1 < SectorsPerCluster
                             THEN /\ sectorIdx' = sectorIdx + 1
                                  /\ UNCHANGED <<pc, err, cbCont>>
                             ELSE /\ cbCont' = dc
                                  /\ pc' = "ec_after"
                                  /\ UNCHANGED <<sectorIdx, err>>
    /\ UNCHANGED <<op, current, cbClusters, fatLookups>>
    /\ UNCHANGED volVars
    /\ UNCHANGED treeVars

\* WriteFromClusterChain(firstClusterNumber, dataSize, useFat, w)
WriteFromClusterChain ==
    \E first \in 1 .. (ClusterCountOfModel + 1), useFat \in BOOLEAN,
       dataSize \in 0 .. MaxDataSize :
        CallEnumerateClusters("write", first, useFat, dataSize, 0)

NextWalk ==
    \/ EnumeratePlain
    \/ EnumerateWithSectors
    \/ ClusterVisit
    \/ SectorStep
    \/ ClusterAdvance

SpecWalk == InitWalk /\ [][NextWalk]_vars

\* The FAT of an image whose files are chained inside the cluster heap, with
\* one value beyond it.
FatValuesOfFiles == {3, 4, 5, LastCluster}

InitWrite ==
    /\ bsh \in Headers({1}, {0, 1})
    /\ activeFat \in [1 .. (bsh.ClusterCount - 1) -> FatValuesOfFiles]
    /\ image = [s \in 1 .. ImageSectors(bsh) |-> <<>>]
    /\ InitIdle

NextWrite ==
    \/ WriteFromClusterChain
    \/ ClusterVisit
    \/ SectorStep
    \/ ClusterAdvance

SpecWrite == InitWrite /\ [][NextWrite]_vars

---------------------------------------------------------------------------
(* GetSectorByIndex and EnumerateSectors over byte sources of any length *)

\* EnumerateSectors from sector i on: cb[i + 1] is what the sector callback
\* returns for sector i, passed the buffer lengths it was invoked with.
RECURSIVE EnumerateSectors(_, _, _, _, _)
EnumerateSectors(length, clusterNumber, i, cb, passed) ==
    IF i >= SectorsPerCluster THEN [err |-> NoError, passed |-> passed]
    ELSE IF GetSectorByIndex(length, clusterNumber, i).err # NoError
    THEN [err |-> GetSectorByIndex(length, clusterNumber, i).err,
          passed |-> passed]
    ELSE IF cb[i + 1] = "error"
    THEN [err |-> "callback error",
          passed |-> Append(passed,
                            GetSectorByIndex(length, clusterNumber, i).data)]
    ELSE IF cb[i + 1] = "stop"
    THEN [err |-> NoError,
          passed |-> Append(passed,
                            GetSectorByIndex(length, clusterNumber, i).data)]
    ELSE EnumerateSectors(length, clusterNumber, i + 1, cb,
             Append(passed, GetSectorByIndex(length, clusterNumber, i).data))

\* Byte sources of every length up to the end of the cluster heap, the
\* lengths that end inside a sector included, and a volume whole in its
\* byte source whose clusters are half as large as the range of a word, so
\* that its cluster heap extends past that range.
InitSector ==
    /\ \/ /\ bsh \in Headers({1, 2}, {0, 1})
          /\ \E length \in 0 .. (ImageSectors(bsh) * SectorSize) :
                image = [length |-> length]
       \/ /\ bsh \in Headers({WordBits - 4}, {3})
          /\ image = [length |-> ImageSectors(bsh) * SectorSize]
    /\ activeFat = <<>>
    /\ InitIdle

\* ec.GetSectorByIndex(sectorIndex) on the cluster er.GetCluster returns.
GetSectorByIndexCall ==
    \E clusterNumber \in 2 .. (ClusterCountOfModel + 2),
       sectorIndex \in 0 .. 2 :
        \E r \in {GetSectorByIndex(image.length, clusterNumber,
                                    sectorIndex)} :
            /\ result' = [call |-> "GetSectorByIndex",
                          clusterNumber |-> clusterNumber,
                          sectorIndex |-> sectorIndex,
                          err |-> r.err, data |-> r.data,
                          offset |-> r.offset]
            /\ UNCHANGED <<nodes>>
            /\ UNCHANGED volVars
            /\ UNCHANGED walkVars
            /\ UNCHANGED writeVars
            /\ UNCHANGED dirVars

\* ec.EnumerateSectors(cb)
EnumerateSectorsCall ==
    \E clusterNumber \in 2 .. (ClusterCountOfModel + 2),
       cb \in [1 .. SectorsPerCluster -> CbResults] :
        \E r \in {EnumerateSectors(image.length, clusterNumber, 0, cb,
                                    <<>>)} :
            /\ result' = [call |-> "EnumerateSectors",
                          clusterNumber |-> clusterNumber,
                          err |-> r.err, passed |-> r.passed]
            /\ UNCHANGED <<nodes>>
            /\ UNCHANGED volVars
            /\ UNCHANGED walkVars
            /\ UNCHANGED writeVars
            /\ UNCHANGED dirVars

NextSector ==
    \/ GetSectorByIndexCall
    \/ EnumerateSectorsCall

SpecSector == InitSector /\ [][NextSector]_vars

---------------------------------------------------------------------------
(* EnumerateDirectoryEntries over the directory of an image *)

DirSlots == 4

Slot(type, count) ==
    [type |-> type, secondaryCount |-> count, isDirectory |-> FALSE,
     firstCluster |-> 0, nameLength |-> 0, fileName |-> <<>>]

EndSlot == Slot(0, 0)

\* The slots a directory of the image may hold: the end marker, a deleted
\* File entry (0x05) and a deleted secondary (0x40), File entries (0x85)
\* declaring no, one or two secondaries, a Stream Extension (0xC0), a
\* Volume Label (0x83), and an in-use slot of no listed kind (0x90).
SlotChoices ==
    {EndSlot, Slot(5, 1), Slot(64, 0), Slot(133, 0), Slot(133, 1),
     Slot(133, 2), Slot(192, 0), Slot(131, 0), Slot(144, 0)}

\* The image whose cluster heap starts with the given slots, in sectors of
\* perSector slots, and is zero-filled after them.
ImageOf(h, slots, perSector) ==
    [s \in 1 .. ImageSectors(h) |->
        IF s <= h.ClusterHeapOffset THEN <<>>
        ELSE [i \in 1 .. perSector |->
                LET n == (s - 1 - h.ClusterHeapOffset) * perSector + i
                IN  IF n <= Len(slots) THEN slots[n] ELSE EndSlot]]

InitDir ==
    /\ bsh \in Headers({5, 6}, {1})
    /\ activeFat = [i \in 1 .. (bsh.ClusterCount - 1) |-> LastCluster]
    /\ \E slots \in [1 .. DirSlots -> SlotChoices] :
          image = ImageOf(bsh, slots,
                          (2 ^ bsh.BytesPerSectorShift)
                             \div directoryEntryBytesCount)
    /\ InitIdle

\* EnumerateDirectoryEntries(cb): the walk is contiguous (useFat = false).
\* failAt = n > 0 is a callback that returns an error at its n-th call.
EnumerateDirectoryEntries ==
    \E failAt \in {0, 2} :
        CallEnumerateClusters("dir", bsh.FirstClusterOfRootDirectory, FALSE,
                              0, failAt)

NextDir ==
    \/ EnumerateDirectoryEntries
    \/ ClusterVisit
    \/ SectorStep
    \/ ClusterAdvance

SpecDir == InitDir /\ [][NextDir]_vars

---------------------------------------------------------------------------
(* The predicates of EntryType on every type byte *)

\* EntryType is a uint8.
TypeBytes == 0 .. (2 ^ 8 - 1)

InitType ==
    /\ bsh \in Headers({5}, {0})
    /\ activeFat = [i \in 1 .. (bsh.ClusterCount - 1) |-> LastCluster]
    /\ image = [s \in 1 .. ImageSectors(bsh) |-> <<>>]
    /\ InitIdle

\* The methods of EntryType called on a type byte.
EntryTypeCall ==
    \E et \in TypeBytes :
        /\ result' = [call |-> "EntryType", et |-> et,
                      IsEndOfDirectory |-> IsEndOfDirectory(et),
                      IsUnusedEntryMarker |-> IsUnusedEntryMarker(et),
                      IsRegular |-> IsRegular(et),
                      IsInUse |-> IsInUse(et),
                      IsPrimary |-> IsPrimary(et),
                      IsCritical |-> IsCritical(et),
                      TypeCode |-> TypeCode(et)]
        /\ UNCHANGED nodes
        /\ UNCHANGED walkVars
        /\ UNCHANGED writeVars
        /\ UNCHANGED dirVars
        /\ UNCHANGED volVars

NextType == EntryTypeCall

SpecType == InitType /\ [][NextType]_vars

---------------------------------------------------------------------------
(* AddChild on one node, in any order *)

\* "B" < "a" < "ab" < "b" in Go's string order.
Names == {<<66>>, <<97>>, <<97, 98>>, <<98>>}

InitAddChild ==
    /\ bsh \in Headers({5}, {0})
    /\ activeFat = [i \in 1 .. (bsh.ClusterCount - 1) |-> LastCluster]
    /\ image = [s \in 1 .. ImageSectors(bsh) |-> <<>>]
    /\ InitIdle

\* rootNode.AddChild(name, isDirectory, ...); result keeps the calls made.
AddChildCall ==
    \E name \in Names, isDirectory \in BOOLEAN :
        /\ nodes' = AddChild(nodes, <<>>, name, isDirectory, NoCluster)
        /\ result' = [call |-> "AddChild",
                      calls |-> (IF result.call = "AddChild"
                                 THEN result.calls ELSE {})
                                  \cup {<<name, isDirectory>>}]
        /\ UNCHANGED walkVars
        /\ UNCHANGED writeVars
        /\ UNCHANGED dirVars
        /\ UNCHANGED volVars

NextAddChild == AddChildCall

SpecAddChild == InitAddChild /\ [][NextAddChild]_vars

---------------------------------------------------------------------------
(* Tree: Visit and List *)

\* The visitor callback on a node; failAt = n > 0 is a callback that returns
\* an error at its n-th call.
Callback(st, path, failAt) ==
    [st EXCEPT !.trace = Append(@, path),
               !.err = IF Len(st.trace) + 1 = failAt
                       THEN "callback error" ELSE NoError]

\* The visit state after loadDirectory on a child has returned ld.
WithLoad(st, childPath, ld) ==
    [st EXCEPT !.nodes = ld.nodes, !.err = ld.err,
               !.loads = Append(@, childPath)]

\* tree.visit loading the child folder whether it is loaded or not.
LoadedChild_Always(st, childPath, mapOrder) ==
    WithLoad(st, childPath, LoadNode(st.nodes, childPath, mapOrder))

\* tree.visit: "Finish loading node."
LoadedChild(st, childPath, mapOrder) ==
    IF st.nodes[childPath].loaded THEN st
    ELSE WithLoad(st, childPath, LoadNode(st.nodes, childPath, mapOrder))

RECURSIVE visit(_, _, _, _)
RECURSIVE visitFolders(_, _, _, _, _)
RECURSIVE visitFiles(_, _, _, _)

\* tree.visit, second loop, from the k-th name of childrenFiles: "Do the
\* files all at once, at the bottom." An error (a panic) ends the visit.
visitFiles(st, path, k, failAt) ==
    IF st.err # NoError \/ k > Len(st.nodes[path].childrenFiles) THEN st
    ELSE visitFiles(
             Callback(st, Append(path, st.nodes[path].childrenFiles[k]),
                      failAt),
             path, k + 1, failAt)

\* tree.visit, first loop, from the k-th name of childrenFolders: the child
\* folder is loaded if it is not loaded yet and then visited; a name whose
\* node is not a directory is passed over.
visitFolders(st, path, k, failAt, mapOrder) ==
    IF st.err # NoError \/ k > Len(st.nodes[path].childrenFolders) THEN st
    ELSE IF ~st.nodes[Append(path, st.nodes[path].childrenFolders[k])]
                .isDirectory
    THEN visitFolders(st, path, k + 1, failAt, mapOrder)
    ELSE visitFolders(
             visit(LoadedChild(st,
                               Append(path, st.nodes[path].childrenFolders[k]),
                               mapOrder),
                   Append(path, st.nodes[path].childrenFolders[k]),
                   failAt, mapOrder),
             path, k + 1, failAt, mapOrder)

\* visit with the two loops exchanged: files before folders.
visit_FilesFirst(st, path, failAt, mapOrder) ==
    IF st.err # NoError THEN st
    ELSE visitFolders(visitFiles(Callback(st, path, failAt), path, 1, failAt),
                      path, 1, failAt, mapOrder)

\* tree.visit(pathParts, node, cb): the callback on the node, the folders,
\* then the files.
visit(st, path, failAt, mapOrder) ==
    IF st.err # NoError THEN st
    ELSE visitFiles(visitFolders(Callback(st, path, failAt), path, 1, failAt,
                                 mapOrder),
                    path, 1, failAt)

\* strings.Join(pathParts, `\`)
RECURSIVE JoinPath(_)
JoinPath(pathParts) ==
    IF pathParts = <<>> THEN <<>>
    ELSE IF Len(pathParts) = 1 THEN Head(pathParts)
    ELSE Head(pathParts) \o <<92>> \o JoinPath(Tail(pathParts))

\* The callback of List: the root (empty path) is left out.
RECURSIVE ListedFiles(_)
ListedFiles(trace) ==
    IF trace = <<>> THEN <<>>
    ELSE (IF Len(Head(trace)) = 0 THEN <<>> ELSE <<JoinPath(Head(trace))>>)
           \o ListedFiles(Tail(trace))

\* The map of List, nodes[nodePath] = node: each joined path to the node
\* (named by its path in the tree) the callback stored last under it.
ListedNodes(trace) ==
    [nodePath \in {JoinPath(trace[k]) :
                     k \in {j \in 1 .. Len(trace) : Len(trace[j]) # 0}} |->
        LET last == CHOOSE k \in 1 .. Len(trace) :
                      /\ Len(trace[k]) # 0
                      /\ JoinPath(trace[k]) = nodePath
                      /\ \A j \in (k + 1) .. Len(trace) :
                            JoinPath(trace[j]) # nodePath
        IN  trace[last]]

---------------------------------------------------------------------------
(* The tree over the images of a small volume *)

\* "B", "a" and "ab": the names of the images.
TreeNames == {<<66>>, <<97>>, <<97, 98>>}

\* The FileName field: 15 UTF-16 units, low byte first, NUL-padded.
NameBytes(name) ==
    [i \in 1 .. 30 |->
        LET k == (i + 1) \div 2
        IN  IF k > Len(name) THEN 0
            ELSE IF i % 2 = 1 THEN name[k] % 256 ELSE name[k] \div 256]

\* A file's entry set: File (0x85), Stream Extension (0xC0), FileName (0xC1).
EntrySet(name, isDirectory, firstCluster) ==
    << [Slot(133, 2) EXCEPT !.isDirectory = isDirectory],
       [Slot(192, 0) EXCEPT !.firstCluster = firstCluster,
                            !.nameLength = Len(name)],
       [Slot(193, 0) EXCEPT !.fileName = NameBytes(name)] >>

TreeHeader ==
    [BytesPerSectorShift |-> 7, SectorsPerClusterShift |-> 2,
     ClusterCount |-> 5, ClusterHeapOffset |-> HeapOffsetOfModel,
     FirstClusterOfRootDirectory |-> 2]

\* The image whose clusters start with the given slots and are zero-filled
\* after them.
TreeImage(h, contents) ==
    LET perSector == (2 ^ h.BytesPerSectorShift) \div directoryEntryBytesCount
        spc == 2 ^ h.SectorsPerClusterShift
    IN  [s \in 1 .. ImageSectors(h) |->
           IF s <= h.ClusterHeapOffset THEN <<>>
           ELSE LET n == s - 1 - h.ClusterHeapOffset
                    slots == contents[2 + (n \div spc)]
                IN  [i \in 1 .. perSector |->
                       LET k == (n % spc) * perSector + i
                       IN  IF k <= Len(slots) THEN slots[k] ELSE EndSlot]]

\* The root directory (cluster 2): folders "a" (cluster 3) and "B"
\* (cluster 4) and the regular file "ab" (cluster 5), in ascending order or
\* not.
RootEntries ==
    LET a == EntrySet(<<97>>, TRUE, 3)
        B == EntrySet(<<66>>, TRUE, 4)
        ab == EntrySet(<<97, 98>>, FALSE, 5)
    IN  {B \o a \o ab, ab \o a \o B}

\* Folder "a": empty, one file, or a subfolder (cluster 6) and a file.
FolderAEntries ==
    {<<>>, EntrySet(<<66>>, FALSE, 5),
     EntrySet(<<97, 98>>, TRUE, 6) \o EntrySet(<<66>>, FALSE, 5)}

\* Folder "B": empty, an empty file (first cluster 0), or a slot of no
\* listed kind, on which the read of the folder fails.
FolderBEntries == {<<>>, EntrySet(<<97>>, FALSE, 0), <<Slot(144, 0)>>}

\* The data of the regular files: zero bytes, 0xFF bytes, or bytes that
\* happen to decode as an entry set.
FileData == {<<>>, <<Slot(255, 0)>>, EntrySet(<<97>>, FALSE, 0)}

\* Folder "a\ab": one file.
FolderABEntries == {EntrySet(<<97>>, FALSE, 5)}

InitTree ==
    /\ bsh = TreeHeader
    /\ activeFat = [i \in 1 .. (bsh.ClusterCount - 1) |-> LastCluster]
    /\ \E c2 \in RootEntries, c3 \in FolderAEntries, c4 \in FolderBEntries,
          c5 \in FileData, c6 \in FolderABEntries :
          image = TreeImage(bsh, (2 :> c2) @@ (3 :> c3) @@ (4 :> c4)
                                   @@ (5 :> c5) @@ (6 :> c6))
    /\ InitIdle

\* The orders in which a range over the filenames map may yield the names.
MapOrders ==
    {o \in [1 .. Cardinality(TreeNames) -> TreeNames] :
        \A i, j \in DOMAIN o : i # j => o[i] # o[j]}

\* The paths asked for: the root, names of the root, of folder "a" and of
\* folder "a\ab", and paths with the name "b", which no image holds, under
\* the root, under the folders "a" and "B", and under the regular file "ab".
Paths ==
    {<<>>, <<<<97>>>>, <<<<97, 98>>>>, <<<<98>>>>,
     <<<<97>>, <<66>>>>, <<<<97>>, <<98>>>>, <<<<66>>, <<98>>>>,
     <<<<97, 98>>, <<98>>>>, <<<<97>>, <<97, 98>>, <<97>>>>}

UnchangedByTree ==
    /\ UNCHANGED walkVars
    /\ UNCHANGED writeVars
    /\ UNCHANGED dirVars
    /\ UNCHANGED volVars

\* tree.Load()
Load ==
    \E mapOrder \in MapOrders :
      \E ld \in {loadDirectory(nodes, <<>>, bsh.FirstClusterOfRootDirectory,
                               mapOrder)} :
        /\ nodes' = ld.nodes
        /\ result' = [call |-> "Load", err |-> ld.err,
                      loads |-> <<bsh.FirstClusterOfRootDirectory>>]
        /\ UnchangedByTree

\* tree.Lookup(pathParts)
Lookup ==
    \E pathParts \in Paths, mapOrder \in MapOrders :
      \E r \in {TreeLookup(nodes, pathParts, mapOrder, <<>>)} :
        /\ nodes' = r.nodes
        /\ result' = [call |-> "Lookup", pathParts |-> pathParts,
                      wasLoaded |-> nodes[<<>>].loaded,
                      after |-> result.call,
                      node |-> r.node, err |-> r.err, loads |-> r.loads]
        /\ UnchangedByTree

\* The state in which tree.Visit enters visit on the root.
VisitStart ==
    [nodes |-> nodes, trace |-> <<>>, err |-> NoError, loads |-> <<>>]

\* tree.Visit(cb)
Visit ==
    \E failAt \in {0, 2, 4}, mapOrder \in MapOrders :
      \E r \in {visit(VisitStart, <<>>, failAt, mapOrder)} :
        /\ nodes' = r.nodes
        /\ result' = [call |-> "Visit", trace |-> r.trace,
                      err |-> r.err, loads |-> r.loads]
        /\ UnchangedByTree

\* tree.List()
List ==
    \E mapOrder \in MapOrders :
      \E r \in {visit(VisitStart, <<>>, 0, mapOrder)} :
        /\ nodes' = r.nodes
        /\ result' = [call |-> "List",
                      files |-> IF r.err = NoError
                                THEN ListedFiles(r.trace) ELSE <<>>,
                      nodes |-> IF r.err = NoError
                                THEN ListedNodes(r.trace) ELSE <<>>,
                      err |-> r.err, loads |-> r.loads]
        /\ UnchangedByTree

NextTree ==
    \/ Load
    \/ Lookup
    \/ Visit
    \/ List

SpecTree == InitTree /\ [][NextTree]_vars

---------------------------------------------------------------------------
(* The index of one directory and the lookups in it *)

\* A file's entry set with one FileName entry per fragment and the given
\* NameLength in its Stream Extension.
FileSet(fragments, nameLength, isDirectory) ==
    << [Slot(133, 1 + Len(fragments)) EXCEPT !.isDirectory = isDirectory],
       [Slot(192, 0) EXCEPT !.nameLength = nameLength] >>
    \o [k \in 1 .. Len(fragments) |->
          [Slot(193, 0) EXCEPT !.fileName = NameBytes(fragments[k])]]

\* The names of the files, in fragments of at most 15 units: "a", "ab" and
\* a name of 16 units.
Fragments ==
    {<< <<97>> >>, << <<97, 98>> >>, << [i \in 1 .. 15 |-> 97], <<98>> >>}

\* The entry sets a directory may hold: each name with a NameLength that
\* is its length or is not.
FileSets ==
    {FileSet(f, n, d) : f \in Fragments, n \in {1, 2, 16}, d \in BOOLEAN}

\* A root directory of one or two File entry sets; two sets may carry the
\* same name. A Volume Label may precede them, and a Volume Label, an
\* Allocation Bitmap or a slot of no known kind may stand between them.
InitIndex ==
    /\ bsh = TreeHeader
    /\ activeFat = [i \in 1 .. (bsh.ClusterCount - 1) |-> LastCluster]
    /\ \E first \in FileSets, second \in FileSets \cup {<<>>},
          lead \in {<<>>, <<Slot(131, 0)>>},
          between \in {<<>>, <<Slot(131, 0)>>, <<Slot(129, 0)>>,
                       <<Slot(144, 0)>>} :
          image = TreeImage(bsh, (2 :> (lead \o first \o between \o second))
                                   @@ (3 :> <<>>)
                                   @@ (4 :> <<>>) @@ (5 :> <<>>)
                                   @@ (6 :> <<>>))
    /\ InitIdle

UnchangedByIndex ==
    /\ UNCHANGED nodes
    /\ UNCHANGED walkVars
    /\ UNCHANGED writeVars
    /\ UNCHANGED dirVars
    /\ UNCHANGED volVars

\* en.IndexDirectoryEntries() of the navigator at the root directory.
IndexDirectoryEntriesCall ==
    \E w \in {IndexedWalk(bsh.FirstClusterOfRootDirectory)} :
        /\ result' = [call |-> "IndexDirectoryEntries", index |-> IndexOf(w),
                      err |-> w.err, delivered |-> w.en.delivered]
        /\ UnchangedByIndex

\* The names asked of an index: the names it holds and one it does not.
NamesAsked(index) ==
    {index.File[k].complete_filename : k \in 1 .. Len(index.File)}
      \cup {<<98>>}

\* index.FindIndexedFile(filename) and
\* index.FindIndexedFileFileDirectoryEntry(filename) on the index built.
FindIndexedFileCall ==
    /\ result.call \in {"IndexDirectoryEntries", "FindIndexedFile"}
    /\ result.err = NoError
    /\ \E filename \in NamesAsked(result.index) :
          /\ result' =
                [call |-> "FindIndexedFile", index |-> result.index,
                 err |-> NoError, filename |-> filename,
                 found |-> FoundIndexedFile(result.index, filename),
                 primary |->
                    IF FoundIndexedFile(result.index, filename)
                    THEN FindIndexedFile(result.index, filename).PrimaryEntry
                    ELSE NilEntry,
                 fdf |-> FindIndexedFileFileDirectoryEntry(result.index,
                                                           filename)]
          /\ UnchangedByIndex

NextIndex ==
    \/ IndexDirectoryEntriesCall
    \/ FindIndexedFileCall

SpecIndex == InitIndex /\ [][NextIndex]_vars

---------------------------------------------------------------------------
(* Claims about the cluster walker and the extractor *)

InHeap(c) == 2 <= c /\ c < bsh.ClusterCount + 2

\* The cluster that follows c in a stream's chain.
ChainNext(c, useFat) == IF useFat THEN NextMappedCluster(c) ELSE c + 1

\* The chain that starts at c has n clusters inside the cluster heap, each
\* but the last linked to its successor.
RECURSIVE ChainHolds(_, _, _)
ChainHolds(c, n, useFat) ==
    /\ InHeap(c)
    /\ n > 1 =>
         /\ useFat => c - 1 <= Len(activeFat)
         /\ ChainHolds(ChainNext(c, useFat), n - 1, useFat)

\* The k-th cluster (from 0) of the chain that starts at c.
RECURSIVE ChainCluster(_, _, _)
ChainCluster(c, k, useFat) ==
    IF k = 0 THEN c ELSE ChainCluster(ChainNext(c, useFat), k - 1, useFat)

ClustersNeeded(dataSize) ==
    LET clusterSize == SectorsPerCluster * SectorSize
        n == (dataSize + clusterSize - 1) \div clusterSize
    IN  IF n = 0 THEN 1 ELSE n

\* The first dataSize bytes of the chain's sectors in walk order, each byte
\* named by its sector of the image and its offset in that sector.
ExpectedBytes(first, dataSize, useFat) ==
    [j \in 1 .. dataSize |->
        LET sectorInWalk == (j - 1) \div SectorSize
            c == ChainCluster(first, sectorInWalk \div SectorsPerCluster,
                              useFat)
        IN  <<SectorAt(c, sectorInWalk % SectorsPerCluster),
              (j - 1) % SectorSize>>]

\* The bytes handed to the sink, named the same way.
RECURSIVE SinkBytes(_)
SinkBytes(writes) ==
    IF writes = <<>> THEN <<>>
    ELSE SinkBytes(SubSeq(writes, 1, Len(writes) - 1))
           \o [b \in 1 .. writes[Len(writes)].len |->
                 <<writes[Len(writes)].sector, b - 1>>]

WriteReturned == op.kind = "write" /\ pc = "done"

\* C1: for every stream whose chain holds at least data_size bytes,
\* WriteFromClusterChain returns without error, has written exactly
\* data_size bytes, and they are the first data_size bytes of the chain.
C1_WritesExactlyDataSize ==
    (WriteReturned
       /\ ChainHolds(op.start, ClustersNeeded(op.dataSize), op.useFat))
    => /\ err = NoError
       /\ written = op.dataSize
       /\ SinkBytes(sink) = ExpectedBytes(op.start, op.dataSize, op.useFat)

\* C4: in a FAT-following walk that starts inside the heap, every cluster
\* the callback is invoked with lies in [2, cluster_count + 2), whatever the
\* active FAT holds.
C4_VisitedClustersInHeap ==
    (op.useFat /\ InHeap(op.start))
    => \A i \in 1 .. Len(cbClusters) : InHeap(cbClusters[i])

\* C5: once the active-FAT entry consulted for the current cluster is the
\* BAD marker, the walk has returned an error and the callback has not been
\* invoked for any further cluster.
C5_BadEntryFailsWalk ==
    \A i \in 1 .. Len(fatLookups) :
        IsBad(NextMappedCluster(fatLookups[i]))
        => /\ pc = "done"
           /\ err # NoError
           /\ Len(cbClusters) = i

---------------------------------------------------------------------------
(* Claims about EnumerateDirectoryEntries *)

SlotsPerSector == SectorSize \div directoryEntryBytesCount

\* The slot of the image at absolute slot position pos.
SlotAtPos(pos) ==
    image[(pos \div SlotsPerSector) + 1][(pos % SlotsPerSector) + 1]

\* Slot positions of the directory that starts at the first cluster of the
\* heap, in walk order (the walk is contiguous).
DirPositions ==
    (bsh.ClusterHeapOffset * SlotsPerSector)
        .. (Len(image) * SlotsPerSector - 1)

EndPositions == {p \in DirPositions : IsEndOfDirectory(SlotAtPos(p).type)}

\* The position of the first end-of-directory slot of the directory.
FirstEndPos == CHOOSE p \in EndPositions : \A q \in EndPositions : p <= q

EntriesOfSet(d) == <<d.primary>> \o d.secondaries

\* C2: a slot whose type byte is in 0x01..0x7F is not parsed, is not the
\* current primary, is not in the secondary accumulator and is not delivered
\* to the callback as or within an entry set.
C2_UnusedSlotsSkipped ==
    /\ \A i \in 1 .. Len(en.parsed) :
          ~IsUnusedEntryMarker(SlotAtPos(en.parsed[i]).type)
    /\ en.primaryEntry # NilEntry
          => ~IsUnusedEntryMarker(en.primaryEntry.entryType)
    /\ \A i \in 1 .. Len(en.secondaryEntries) :
          ~IsUnusedEntryMarker(en.secondaryEntries[i].entryType)
    /\ \A i \in 1 .. Len(en.delivered) :
          \A j \in 1 .. Len(EntriesOfSet(en.delivered[i])) :
             ~IsUnusedEntryMarker(EntriesOfSet(en.delivered[i])[j].entryType)

\* C6: every delivered entry set whose primary declares a secondary_count
\* carries exactly that many secondary entries.
C6_DeliveredSetsComplete ==
    \A i \in 1 .. Len(en.delivered) :
        IsPrimaryDirectoryEntry(en.delivered[i].primary)
        => Len(en.delivered[i].secondaries)
             = en.delivered[i].primary.secondaryCount

ClusterOfPos(pos) ==
    ((pos \div SlotsPerSector) - bsh.ClusterHeapOffset) \div SectorsPerCluster

\* A File set with secondaries was delivered whose last secondary lies in
\* another cluster than its primary.
C6_Witness ==
    \E i \in 1 .. Len(en.delivered) :
        LET d == en.delivered[i] IN
        /\ d.primary.typeName = "File"
        /\ d.primary.secondaryCount >= 1
        /\ Len(d.secondaries) = d.primary.secondaryCount
        /\ ClusterOfPos(d.secondaries[Len(d.secondaries)].pos)
             # ClusterOfPos(d.primary.pos)

\* C7: once a slot of type 0x00 is met the traversal ends: no slot at or
\* after it is parsed, no sector after its sector and no cluster after its
\* cluster is read, no entry set is delivered from behind it, and the call
\* returns without error.
C7_EndOfDirectoryStops ==
    /\ \A i \in 1 .. Len(en.parsed) : en.parsed[i] < FirstEndPos
    /\ \A i \in 1 .. Len(reads) :
          reads[i] \div SectorSize <= FirstEndPos \div SlotsPerSector
    /\ \A i \in 1 .. Len(cbClusters) :
          cbClusters[i] - 2 <= ClusterOfPos(FirstEndPos)
    /\ \A i \in 1 .. Len(en.delivered) :
          \A j \in 1 .. Len(EntriesOfSet(en.delivered[i])) :
             EntriesOfSet(en.delivered[i])[j].pos < FirstEndPos
    /\ en.isDone => (pc = "done" => err = NoError)
    /\ (pc = "done" /\ err = NoError) => en.isDone

\* The call has returned at an end marker that is followed, in the same
\* cluster and in the next one, by slots that are not end markers.
C7_Witness ==
    /\ pc = "done"
    /\ en.isDone
    /\ err = NoError
    /\ Len(en.delivered) > 0
    /\ \E p \in DirPositions :
          /\ p > FirstEndPos
          /\ ~IsEndOfDirectory(SlotAtPos(p).type)

---------------------------------------------------------------------------
(* Claims about the tree *)

StrictlyAscending(list) ==
    \A i \in 1 .. (Len(list) - 1) : StringLess(list[i], list[i + 1])

Elements(list) == {list[i] : i \in 1 .. Len(list)}

\* C10: after any sequence of AddChild calls on a node, ChildFolders and
\* ChildFiles are each strictly ascending in case-sensitive order and hold
\* exactly the names added as folders and as files, so the lists do not
\* depend on the order of the calls.
C10_ChildrenSorted ==
    result.call = "AddChild"
    => /\ StrictlyAscending(nodes[<<>>].childrenFolders)
       /\ StrictlyAscending(nodes[<<>>].childrenFiles)
       /\ Elements(nodes[<<>>].childrenFolders)
            = {c[1] : c \in {d \in result.calls : d[2]}}
       /\ Elements(nodes[<<>>].childrenFiles)
            = {c[1] : c \in {d \in result.calls : ~d[2]}}

\* All four names were added as folders and as files.
C10_Witness ==
    /\ result.call = "AddChild"
    /\ Len(nodes[<<>>].childrenFolders) = Cardinality(Names)
    /\ Len(nodes[<<>>].childrenFiles) = Cardinality(Names)

\* The names of a set in ascending order.
RECURSIVE Ascending(_)
Ascending(S) ==
    IF S = {} THEN <<>>
    ELSE LET least == CHOOSE x \in S : \A y \in S \ {x} : StringLess(x, y)
         IN  <<least>> \o Ascending(S \ {least})

\* The directory at a cluster of the image holds the entry named by parts:
\* every component but the last names a folder of the directory before it.
RECURSIVE DirectoryHolds(_, _)
DirectoryHolds(clusterNumber, parts) ==
    LET index == IndexDirectoryEntries(clusterNumber)
        name == Head(parts)
    IN  /\ name \in DOMAIN Filenames(index)
        /\ \/ Len(parts) = 1
           \/ /\ Filenames(index)[name]
              /\ DirectoryHolds(
                    FindIndexedFileStreamExtensionDirectoryEntry(index, name)
                        .firstCluster,
                    Tail(parts))

\* The path names a node of the image (the empty path names the root).
NamesNode(parts) ==
    parts = <<>> \/ DirectoryHolds(bsh.FirstClusterOfRootDirectory, parts)

\* C3: on a loaded tree, Lookup of a path that names no node of the image
\* returns a nil node and a nil error, wherever the missing component is.
C3_LookupMissIsNotAnError ==
    (/\ result.call = "Lookup"
     /\ result.wasLoaded
     /\ ~NamesNode(result.pathParts))
    => /\ result.node = NilNode
       /\ result.err = NoError

RECURSIVE DepthFirst(_)
RECURSIVE DepthFirstAll(_, _)
DepthFirstAll(path, names) ==
    IF names = <<>> THEN <<>>
    ELSE DepthFirst(Append(path, Head(names)))
           \o DepthFirstAll(path, Tail(names))

DepthFirst(path) ==
    LET children == nodes[path].childrenMap
        folders == {n \in children : nodes[Append(path, n)].isDirectory}
        files == Ascending(children \ folders)
    IN  <<path>> \o DepthFirstAll(path, Ascending(folders))
          \o [k \in 1 .. Len(files) |-> Append(path, files[k])]

\* C9: Visit hands the nodes to the callback in depth-first order, the root
\* first with the empty path, folders and their subtrees before the files
\* of a node, each in ascending name order; a visit that fails has
\* delivered a prefix of that order.
C9_VisitDepthFirst ==
    result.call = "Visit"
    => /\ IsPrefix(result.trace, DepthFirst(<<>>))
       /\ result.err = NoError => result.trace = DepthFirst(<<>>)

\* A whole visit of a tree in which the folder "a" has a subfolder and a
\* file, and the root has a second folder and a file after it.
C9_Witness ==
    /\ result.call = "Visit"
    /\ result.err = NoError
    /\ Len(result.trace) >= 7
    /\ result.trace[2] = <<<<66>>>>

\* strings.Split(s, `\`): the parts of s between backslashes.
RECURSIVE SplitFrom(_, _)
SplitFrom(s, part) ==
    IF s = <<>> THEN <<part>>
    ELSE IF Head(s) = 92 THEN <<part>> \o SplitFrom(Tail(s), <<>>)
    ELSE SplitFrom(Tail(s), Append(part, Head(s)))

Split(s) == SplitFrom(s, <<>>)

\* Lookup is called, right after List has returned, on a path of the
\* sequence List returned, split at backslashes.
LookupOfListed ==
    /\ result.call = "List"
    /\ result.err = NoError
    /\ result'.call = "Lookup"
    /\ \E k \in 1 .. Len(result.files) :
          result'.pathParts = Split(result.files[k])

---------------------------------------------------------------------------
(* Claims about Parse *)

\* A boot sector header with one of the four verified fields wrong.
Malformed(h) ==
    \/ h.JumpBoot # requiredJumpBootSignature
    \/ h.FileSystemName # requiredFileSystemName
    \/ \E i \in DOMAIN h.MustBeZero : h.MustBeZero[i] # 0
    \/ Uint16Of(h.BootSignature) # requiredBootSignature

\* C12: Parse returns an error whenever the main or the backup boot sector
\* header has a wrong jump-boot, a wrong filesystem name, a non-zero byte in
\* the must-be-zero field, or a wrong boot signature.
C12_ParseRejectsMalformedHeader ==
    (result.call = "Parse"
       /\ (Malformed(image.main) \/ Malformed(image.backup)))
    => result.err # NoError

\* Parse from the start of a volume whose main header is well formed and
\* whose backup header has a non-zero last byte in its must-be-zero field.
C12_Witness ==
    /\ result.call = "Parse"
    /\ result.from = 0
    /\ ~Malformed(image.main)
    /\ image.backup.MustBeZero[Len(image.backup.MustBeZero)] # 0
    /\ result.err = "must-be-zero field not all zeros"

\* C13: Parse accepts a volume only if the major file-system revision of
\* its boot sector header is 1; any other major revision is an error.
C13_ParseRejectsOtherRevisions ==
    (result.call = "Parse" /\ result.err = NoError)
    => image.main.FileSystemRevision[2] = 1

\* The k-th FAT of the volume as parseFat keeps it.
FatOfVolume(k) == KeptEntries(image.fats[k], image.main)

\* C14: after a successful Parse the active FAT is FAT[0] when active_fat is
\* 0 and FAT[1] when active_fat is 1 and there are two FATs; Parse returns
\* an error for active_fat 1 with any other number of FATs.
C14_ActiveFatSelection ==
    result.call = "Parse" =>
        /\ (result.err = NoError /\ image.main.VolumeFlags % 2 = 0)
              => activeFat = FatOfVolume(1)
        /\ (result.err = NoError /\ image.main.VolumeFlags % 2 = 1
              /\ image.main.NumberOfFats = 2)
              => activeFat = FatOfVolume(2)
        /\ (image.main.VolumeFlags % 2 = 1 /\ image.main.NumberOfFats # 2)
              => result.err # NoError

---------------------------------------------------------------------------
(* Claims about sector reads *)

\* The bytes the byte source holds from the offset of a sector on.
BytesAt(clusterNumber, sectorIndex) ==
    IF SectorOffset(clusterNumber, sectorIndex) >= image.length THEN 0
    ELSE image.length - SectorOffset(clusterNumber, sectorIndex)

\* C15: a sector read returns exactly sector_size bytes or fails:
\* GetSectorByIndex returns an error when sector_index >= sectors_per_cluster
\* or when the byte source holds fewer than sector_size bytes at the offset
\* of the sector, and no buffer shorter than sector_size is passed to a
\* sector callback.
C15_SectorReadsAreWhole ==
    /\ result.call = "GetSectorByIndex" =>
          /\ result.err = NoError => result.data = SectorSize
          /\ result.sectorIndex >= SectorsPerCluster => result.err # NoError
          /\ BytesAt(result.clusterNumber, result.sectorIndex) < SectorSize
                => result.err # NoError
    /\ result.call = "EnumerateSectors" =>
          \A k \in 1 .. Len(result.passed) : result.passed[k] = SectorSize

\* A read of a sector of which the byte source holds a part only.
C15_Witness ==
    /\ result.call = "GetSectorByIndex"
    /\ result.sectorIndex < SectorsPerCluster
    /\ BytesAt(result.clusterNumber, result.sectorIndex) > 0
    /\ BytesAt(result.clusterNumber, result.sectorIndex) < SectorSize
    /\ result.err # NoError

---------------------------------------------------------------------------
(* Claims about the directory index *)

\* The NameLength of the Stream Extension of an indexed entry set.
NameLengthOf(ide) ==
    Head(SelectSeq(ide.SecondaryEntries,
                   LAMBDA de : de.typeName = "StreamExtension")).nameLength

\* C16: for every File entry set of a directory index the complete filename
\* has exactly name_length code units, name_length being the value of the
\* set's Stream Extension; units of the fragments beyond name_length are
\* not part of the name.
C16_FilenameHasNameLengthUnits ==
    (result.call = "IndexDirectoryEntries" /\ result.err = NoError) =>
        \A k \in 1 .. Len(result.index.File) :
            Len(result.index.File[k].complete_filename)
              = NameLengthOf(result.index.File[k])

\* C17: for every i in [0, FileCount), looking up the name GetFile(i)
\* returns with FindIndexedFile or FindIndexedFileFileDirectoryEntry finds
\* an entry, and its File entry is the one GetFile(i) returned.
C17_LookupFindsTheFileOfGetFile ==
    result.call = "FindIndexedFile" =>
        \A i \in 0 .. (FileCount(result.index) - 1) :
            GetFile(result.index, i).filename = result.filename =>
                /\ result.found
                /\ result.primary = GetFile(result.index, i).fdf
                /\ result.fdf = GetFile(result.index, i).fdf

\* C17 as the code has it: the lookup finds an entry, and its File entry
\* is the one GetFile returns at the first index that carries the name.
C17_LookupFindsTheFirstOfTheName ==
    result.call = "FindIndexedFile" =>
        \A i \in 0 .. (FileCount(result.index) - 1) :
            (/\ GetFile(result.index, i).filename = result.filename
             /\ \A j \in 0 .. (i - 1) :
                   GetFile(result.index, j).filename # result.filename) =>
                /\ result.found
                /\ result.primary = GetFile(result.index, i).fdf
                /\ result.fdf = GetFile(result.index, i).fdf

\* A lookup of a name that two entry sets of the directory carry.
C17_Witness ==
    /\ result.call = "FindIndexedFile"
    /\ FileCount(result.index) = 2
    /\ GetFile(result.index, 0).filename = result.filename
    /\ GetFile(result.index, 1).filename = result.filename
    /\ result.found
    /\ result.fdf = GetFile(result.index, 0).fdf
    /\ result.fdf # GetFile(result.index, 1).fdf

---------------------------------------------------------------------------
(* Claims about chains of the active FAT *)

\* The clusters of the chain of the active FAT that starts at c, up to the
\* cluster whose entry is the END marker; a chain that leaves the cluster
\* heap, reaches a cluster without an entry or does not end within fuel
\* clusters ends with 0.
RECURSIVE FatChain(_, _)
FatChain(c, fuel) ==
    IF ~InHeap(c) \/ c - 1 > Len(activeFat) \/ fuel = 0 THEN <<0>>
    ELSE IF IsLast(activeFat[c - 1]) THEN <<c>>
    ELSE <<c>> \o FatChain(activeFat[c - 1], fuel - 1)

\* The chain that starts at c stays in the heap and ends with END.
ChainEnds(c) ==
    FatChain(c, bsh.ClusterCount)[Len(FatChain(c, bsh.ClusterCount))] # 0

\* A FAT-following walk has returned and every callback continued.
WalkReturnedAllContinued ==
    /\ op.kind = "plain"
    /\ op.useFat
    /\ pc = "done"
    /\ err # "callback error"
    /\ cbCont

\* C18: for every chain of the active FAT that starts at a cluster >= 2,
\* stays within [2, cluster_count + 2) and ends with the END marker, a
\* FAT-following walk whose callback always continues invokes the callback
\* on each cluster of the chain once, in chain order, and returns without
\* error.
C18_WalkFollowsTheChain ==
    (WalkReturnedAllContinued /\ ChainEnds(op.start)) =>
        /\ err = NoError
        /\ cbClusters = FatChain(op.start, bsh.ClusterCount)

---------------------------------------------------------------------------
(* Claims about the bytes WriteFromClusterChain hands to its sink *)

\* The number of bytes of the Write calls made so far.
RECURSIVE BytesPassed(_)
BytesPassed(writes) ==
    IF writes = <<>> THEN 0
    ELSE writes[Len(writes)].len
           + BytesPassed(SubSeq(writes, 1, Len(writes) - 1))

\* C19: at every point of every WriteFromClusterChain run, whether it ends
\* in success or in failure, the bytes passed to the sink so far are at
\* most data_size.
C19_SinkNeverExceedsDataSize ==
    op.kind = "write" => BytesPassed(sink) <= op.dataSize

---------------------------------------------------------------------------
(* Claims about the deliveries of EnumerateDirectoryEntries *)

\* Slots before the end-of-directory marker, by the category bit of their
\* type byte.
IsPrimarySlot(p) ==
    /\ p \in DirPositions
    /\ ~IsEndOfDirectory(SlotAtPos(p).type)
    /\ IsPrimary(SlotAtPos(p).type)

IsSecondarySlot(p) ==
    /\ p \in DirPositions
    /\ ~IsPrimary(SlotAtPos(p).type)

\* The secondaries a primary slot declares: its secondary_count when its
\* entry type carries one, else none.
DeclaredCount(p) ==
    IF /\ ParserFound(SlotAtPos(p).type)
       /\ directoryEntryParsers[DirectoryEntryParserKey(SlotAtPos(p).type)]
            \in {"File", "VolumeGuid"}
    THEN SlotAtPos(p).secondaryCount
    ELSE 0

\* A primary whose declared secondaries are cut short by the next primary,
\* by the end-of-directory marker or by the end of the directory.
CutShort(p) ==
    /\ IsPrimarySlot(p)
    /\ \E k \in 1 .. DeclaredCount(p) : ~IsSecondarySlot(p + k)

\* A secondary slot that precedes the first primary or follows a set that
\* is already complete.
Stray(q) ==
    /\ IsSecondarySlot(q)
    /\ \A p \in DirPositions :
          (p < q /\ IsPrimarySlot(p)
             /\ \A r \in (p + 1) .. (q - 1) : ~IsPrimarySlot(r))
          => q - p > DeclaredCount(p)

\* C20: EnumerateDirectoryEntries delivers each primary slot at most once;
\* a primary whose declared secondaries are cut short is never delivered,
\* and a secondary slot that follows a complete set or precedes the first
\* primary is never delivered with any primary.
C20_DeliveriesAreWholeSets ==
    /\ \A i, j \in 1 .. Len(en.delivered) :
          i # j => en.delivered[i].primary.pos # en.delivered[j].primary.pos
    /\ \A i \in 1 .. Len(en.delivered) :
          /\ ~CutShort(en.delivered[i].primary.pos)
          /\ \A k \in 1 .. Len(en.delivered[i].secondaries) :
                ~Stray(en.delivered[i].secondaries[k].pos)

\* A set was delivered, a secondary slot follows it, and behind that a
\* primary that declares more secondaries than follow it was passed by.
C20_Witness ==
    /\ pc = "done"
    /\ err = NoError
    /\ Len(en.delivered) = 1
    /\ \E q \in DirPositions :
          /\ q < FirstEndPos
          /\ Stray(q)
          /\ q > en.delivered[1].primary.pos
          /\ CutShort(q + 1)

---------------------------------------------------------------------------
(* Claims about the end of a walk *)

\* The callbacks invoked, the sectors read and the FAT entries consulted.
walkHistory == <<cbClusters, cbSectors, reads, fatLookups>>

\* The step in which a sector callback returns what.
SectorCallbackReturns(what) ==
    /\ Len(cbSectors') = Len(cbSectors) + 1
    /\ cbSectors'[Len(cbSectors')].returned = what

\* The step in which a cluster callback that reads no sector returns an
\* error: the handle was passed to it and the walk is over.
ClusterCallbackFails ==
    /\ op.kind = "plain"
    /\ pc = "ec_top"
    /\ cbClusters' # cbClusters
    /\ pc' = "done"

\* C21: when a cluster callback or a sector callback returns stop or an
\* error the walk ends at that point: the callback is not invoked again, no
\* further sector is read, the FAT is not consulted for a next cluster, and
\* an error of the callback is returned to the caller of the walk.
C21_StopOrErrorEndsTheWalk ==
    [][/\ (pc = "ec_after" /\ ~cbCont) =>
            /\ pc' = "done"
            /\ err' = NoError
            /\ walkHistory' = walkHistory
       /\ ClusterCallbackFails => err' = "callback error"
       /\ SectorCallbackReturns("error") =>
            /\ pc' = "done"
            /\ err' = "callback error"
       /\ SectorCallbackReturns("stop") => pc' = "ec_after"
       /\ pc = "ec_after" => <<cbSectors, reads>>' = <<cbSectors, reads>>
       /\ pc = "done" => walkHistory' = walkHistory]_vars

\* A walk over the sectors of two clusters has ended because the cluster
\* callback returned stop after the sector callback had stopped at the first
\* sector of a cluster of two sectors.
C21_Witness ==
    /\ op.kind = "sectors"
    /\ pc = "done"
    /\ err = NoError
    /\ ~cbCont
    /\ SectorsPerCluster = 2
    /\ Len(cbClusters) = 2
    /\ Len(cbSectors) = 3
    /\ cbSectors[3].returned = "stop"
    /\ cbSectors[3].index = 0

---------------------------------------------------------------------------
(* Claims about the offset Parse ends at *)

\* C22: Parse returns without error only if, after the two boot regions, the
\* FAT alignment, the FATs and the cluster-heap alignment, the offset of the
\* byte source is exactly cluster_heap_offset * sector_size.
C22_ParseEndsAtTheClusterHeap ==
    (result.call = "Parse" /\ result.err = NoError) =>
        cursor = image.main.ClusterHeapOffset * SectorSizeOf(image.main)

---------------------------------------------------------------------------
(* Claims about the offsets of clusters and sectors *)

\* C23: for every cluster n with 2 <= n < cluster_count + 2 the offset of
\* the handle of GetCluster(n) is the exact integer cluster_heap_offset *
\* sector_size + (n - 2) * sectors_per_cluster * sector_size, and a sector
\* read through it seeks to that offset plus sector_index * sector_size,
\* without wraparound on a cluster heap that extends past the word range.
C23_ClusterOffsetsAreExact ==
    (/\ result.call = "GetSectorByIndex"
     /\ InHeap(result.clusterNumber)
     /\ result.sectorIndex < SectorsPerCluster) =>
        result.offset
          = bsh.ClusterHeapOffset * SectorSize
              + (result.clusterNumber - 2) * SectorsPerCluster * SectorSize
              + result.sectorIndex * SectorSize

\* C24: every sector delivered by EnumerateSectors is reported with the
\* number cluster_heap_offset + (cluster - 2) * sectors_per_cluster +
\* sector_index, so two different sectors of one traversal never carry the
\* same number and the numbers grow with the position on the disk.
C24_SectorNumbersArePositions ==
    /\ \A k \in DOMAIN cbSectors :
          cbSectors[k].number
            = bsh.ClusterHeapOffset
                + (cbSectors[k].cluster - 2) * SectorsPerCluster
                + cbSectors[k].index
    /\ \A j, k \in DOMAIN cbSectors :
          LET position(c) == (c.cluster - 2) * SectorsPerCluster + c.index
          IN  position(cbSectors[j]) < position(cbSectors[k])
                  => cbSectors[j].number < cbSectors[k].number

---------------------------------------------------------------------------
(* Claims about parseFat and parseFats *)

\* C25: for every header with cluster_count >= 1 and fat_length *
\* sector_size >= 4 * (cluster_count + 1), parsing one FAT yields exactly
\* cluster_count - 1 entries and moves the byte source on by exactly
\* fat_length * sector_size bytes.
C25_ParseFatReadsOneFat ==
    (/\ result.call = "parseFat"
     /\ result.err = NoError
     /\ bsh.ClusterCount >= 1
     /\ bsh.FatLength * SectorSizeOf(bsh) >= 4 * (bsh.ClusterCount + 1)) =>
        /\ Len(result.fats) = 1
        /\ Len(result.fats[1]) = bsh.ClusterCount - 1
        /\ cursor = result.from + bsh.FatLength * SectorSizeOf(bsh)

\* C28: parseFats on a reader whose boot region has not been loaded fails
\* with the error "boot-sectors not loaded yet", and no byte of the byte
\* source has been read by then.
C28_ParseFatsNeedsTheBootRegion ==
    (result.call = "parseFats" /\ bsh = ZeroHeader) =>
        /\ result.err = "boot-sectors not loaded yet"
        /\ result.fats = <<>>
        /\ cursor = result.from

\* parseFats was called on a reader without boot region that stands behind
\* the boot regions of a volume with a well-formed FAT.
C28_Witness ==
    /\ result.call = "parseFats"
    /\ bsh = ZeroHeader
    /\ result.from = 24 * SectorSizeOf(image.main)
    /\ image.fats[1].mediaType = 248
    /\ image.length > result.from

---------------------------------------------------------------------------
(* Claims about the bins of the directory index *)

\* The delivered sets whose primary is of a kind, in the order of delivery.
SetsOfKind(delivered, typeName) ==
    SelectSeq(delivered, LAMBDA d : d.primary.typeName = typeName)

\* C26: IndexDirectoryEntries bins every delivered entry set under the kind
\* name of its primary, each list being in the on-disk order of the
\* primaries, so that GetFile(i) is the i-th File entry set of the
\* directory and FileCount the number of File entry sets delivered.
C26_IndexBinsByKindInOrder ==
    result.call = "IndexDirectoryEntries" =>
        /\ DOMAIN result.index.bins
             = {result.delivered[i].primary.typeName :
                   i \in 1 .. Len(result.delivered)}
        /\ \A t \in DOMAIN result.index.bins :
              /\ Len(result.index.bins[t])
                   = Len(SetsOfKind(result.delivered, t))
              /\ \A k \in 1 .. Len(result.index.bins[t]) :
                    /\ result.index.bins[t][k].PrimaryEntry
                         = SetsOfKind(result.delivered, t)[k].primary
                    /\ result.index.bins[t][k].SecondaryEntries
                         = SetsOfKind(result.delivered, t)[k].secondaries
              /\ \A j, k \in 1 .. Len(result.index.bins[t]) :
                    j < k => result.index.bins[t][j].PrimaryEntry.pos
                               < result.index.bins[t][k].PrimaryEntry.pos
        /\ FileCount(result.index)
             = Len(SetsOfKind(result.delivered, "File"))
        /\ \A i \in 0 .. (FileCount(result.index) - 1) :
              /\ GetFile(result.index, i).fdf
                   = SetsOfKind(result.delivered, "File")[i + 1].primary
              /\ GetFile(result.index, i).filename
                   = Filename(SetsOfKind(result.delivered, "File")[i + 1]
                                 .secondaries)

\* An index of a directory in which a Volume Label stands in front of two
\* File entry sets and a second Volume Label between them.
C26_Witness ==
    /\ result.call = "IndexDirectoryEntries"
    /\ result.err = NoError
    /\ Len(result.delivered) = 4
    /\ result.delivered[1].primary.typeName = "VolumeLabel"
    /\ result.delivered[3].primary.typeName = "VolumeLabel"
    /\ FileCount(result.index) = 2
    /\ GetFile(result.index, 0).filename # GetFile(result.index, 1).filename

---------------------------------------------------------------------------
(* Claims about slots of no listed kind *)

\* An in-use slot whose (type-code, critical, primary) triple is not one of
\* the ten listed kinds.
IsUnlistedSlot(p) ==
    /\ IsInUse(SlotAtPos(p).type)
    /\ ~ParserFound(SlotAtPos(p).type)

\* C27: when the enumeration of a directory meets an in-use slot whose
\* triple is not one of the ten listed kinds it returns an error and
\* delivers nothing further; no enumeration passes over such a slot.
C27_UnlistedSlotIsAnError ==
    /\ \A i \in 1 .. Len(en.parsed) :
          IsUnlistedSlot(en.parsed[i]) =>
              /\ i = Len(en.parsed)
              /\ pc = "done"
              /\ err = "no struct-type recorded for entry-type"
              /\ \A j \in 1 .. Len(en.delivered) :
                    \A k \in 1 .. Len(EntriesOfSet(en.delivered[j])) :
                       EntriesOfSet(en.delivered[j])[k].pos < en.parsed[i]
    /\ \A p \in DirPositions :
          IsUnlistedSlot(p) =>
              /\ \A i \in 1 .. Len(en.parsed) : en.parsed[i] <= p
              /\ \A j \in 1 .. Len(en.delivered) :
                    en.delivered[j].primary.pos < p
              /\ (op.kind = "dir" /\ pc = "done" /\ p < FirstEndPos)
                    => err # NoError

\* The enumeration has returned the error of a slot of no listed kind that
\* follows a delivered set and is followed by a File entry.
C27_Witness ==
    /\ op.kind = "dir"
    /\ pc = "done"
    /\ err = "no struct-type recorded for entry-type"
    /\ Len(en.delivered) = 1
    /\ \E p \in DirPositions :
          /\ IsUnlistedSlot(p)
          /\ p = en.parsed[Len(en.parsed)]
          /\ p + 1 \in DirPositions
          /\ SlotAtPos(p + 1).type = 133
          /\ p + 1 < FirstEndPos

---------------------------------------------------------------------------
(* Claims about the loaded flag of the nodes *)

\* A step of Lookup, Visit or List on a tree whose root Load has loaded.
TreeCallOnLoadedTree ==
    /\ nodes[<<>>].loaded
    /\ result'.call \in {"Lookup", "Visit", "List"}

\* The step loads no node that is loaded, no node twice, and leaves every
\* loaded node as it is: its flag, its child lists and its child map.
LoadedNodesKept ==
    /\ \A p \in DOMAIN nodes :
          nodes[p].loaded =>
              /\ p \in DOMAIN nodes'
              /\ nodes'[p] = nodes[p]
              /\ \A k \in 1 .. Len(result'.loads) : result'.loads[k] # p
    /\ \A j, k \in 1 .. Len(result'.loads) :
          j # k => result'.loads[j] # result'.loads[k]

\* The step reads a directory that the call before it has read.
ReadsADirectoryAgain ==
    /\ result.call \in {"Lookup", "Visit", "List"}
    /\ \E j \in 1 .. Len(result.loads), k \in 1 .. Len(result'.loads) :
          /\ result.loads[j] = result'.loads[k]
          /\ nodes[result.loads[j]].isDirectory

\* C29: across the Lookup, Visit and List calls that follow a Load each
\* directory is read from the image at most once: a loaded node is never
\* loaded again, its loaded flag never returns to false, and its child
\* lists and child map never change afterwards.
C29_EachDirectoryIsReadOnce ==
    [][TreeCallOnLoadedTree =>
          (LoadedNodesKept /\ ~ReadsADirectoryAgain)]_vars

\* C29 as the code has it: a node whose load has succeeded is never loaded
\* again and never changes; a directory whose read failed is not loaded and
\* is read again by the next call that reaches it.
C29_LoadedNodesAreKept ==
    [][TreeCallOnLoadedTree => LoadedNodesKept]_vars

\* A Visit of a tree whose folders were all loaded by the calls before it:
\* it has loaded nothing and returned every node down to the file of the
\* folder "a\ab".
C29_Witness ==
    /\ result.call = "Visit"
    /\ result.err = NoError
    /\ result.loads = <<>>
    /\ Len(result.trace) >= 7
    /\ \E p \in DOMAIN nodes :
          /\ Len(p) = 2
          /\ nodes[p].isDirectory
          /\ nodes[p].loaded
          /\ nodes[p].childrenMap # {}

---------------------------------------------------------------------------
(* Claims about the type byte *)

\* C30: for every type byte 0x00..0xFF exactly one of IsEndOfDirectory,
\* IsUnusedEntryMarker and IsRegular is true, and IsRegular is true exactly
\* when the in-use bit (bit 7) of the byte is set.
C30_TypeBytesAreClassified ==
    result.call = "EntryType" =>
        /\ Cardinality({k \in {"IsEndOfDirectory", "IsUnusedEntryMarker",
                                "IsRegular"} : result[k]}) = 1
        /\ result.IsRegular <=> (result.et \div 2 ^ 7) % 2 = 1

====
